---- MODULE Spec2Model ----
(***************************************************************************)
(* A model of the RoomMesh codec of src/roommesh.py: the primitive readers *)
(* and writers, the value types, the aggregates, the seven point variants  *)
(* and RoomMesh.parse / RoomMesh.write, driven the way the importer and    *)
(* the exporter drive them.                                                *)
(*                                                                         *)
(* Representation.                                                         *)
(*   bytes   a sequence over 0..255                                        *)
(*   str     a sequence of code points (ASCII text is a sequence over      *)
(*           0..127), so that split(), int() and decimal formatting are    *)
(*           computed character by character                               *)
(*   u32     a Python int that travels through a 32-bit field is kept as   *)
(*           two 16-bit limbs, value = hi * 65536 + lo with lo in          *)
(*           0..65535; hi outside 0..65535 is a value outside the          *)
(*           unsigned 32-bit range (hi < 0: negative)                      *)
(*   float   the IEEE-754 binary32 fields [sign, exp, man] of the value    *)
(*   file    [data, pos, err, log]: the bytes, the read position, the      *)
(*           exception that ended the call (NoError while running) and     *)
(*           the list of the file.read / file.write calls made, each with  *)
(*           the context label the caller passed                           *)
(* An exception is modelled by the err field: once it is set no further    *)
(* statement of the call has an effect.  A sink accepts every byte (short  *)
(* writes, OSError, are not modelled).  NaN payloads are not among the     *)
(* inputs.                                                                 *)
(***************************************************************************)
EXTENDS Integers, Sequences, FiniteSets, TLC

Min(a, b) == IF a < b THEN a ELSE b

\* Op applied to the value of x: a statement is evaluated before the
\* statements after it, which use its value under the name Op gives it
Bind(x, Op(_)) == [v \in {x} |-> Op(v)][x]

(***************************************************************************)
(* Exceptions and files                                                    *)
(***************************************************************************)
NoError == [type |-> "none", context |-> ""]

Raise(type, context) == [type |-> type, context |-> context]

\* open(..., 'rb') on a file holding `bytes`
OpenRead(bytes) == [data |-> bytes, pos |-> 0, err |-> NoError, log |-> <<>>]

\* open(..., 'wb'): an empty sink
OpenWrite == [data |-> <<>>, pos |-> 0, err |-> NoError, log |-> <<>>]

Failed(f) == f.err # NoError

\* file.read(n): at most n bytes, fewer at the end of the file.
BinaryIO_read(f, n, context, kind) ==
    LET k == Min(n, Len(f.data) - f.pos)
    IN  [f |-> [f EXCEPT !.pos = @ + k,
                         !.log = Append(@, [context |-> context, kind |-> kind,
                                            at |-> f.pos, n |-> k])],
         v |-> SubSeq(f.data, f.pos + 1, f.pos + k)]

\* file.write(bytes): appends, returns len(bytes).
BinaryIO_write(f, bytes, context, kind) ==
    [f EXCEPT !.data = @ \o bytes,
              !.pos = @ + Len(bytes),
              !.log = Append(@, [context |-> context, kind |-> kind,
                                 at |-> f.pos, n |-> Len(bytes)])]

(***************************************************************************)
(* Integers of 32 bits                                                     *)
(***************************************************************************)
\* the u32 of a small natural (len(list), a literal)
U32(n) == [hi |-> n \div 65536, lo |-> n % 65536]

\* range(count) and file.read(count) for a count read from the wire: the
\* exact value below 2^31, and a count no file of the model can satisfy above.
CountOf(w) == IF w.hi >= 32768 THEN 2147483647 ELSE w.hi * 65536 + w.lo

Float(sign, exp, man) == [t |-> "float", sign |-> sign, exp |-> exp, man |-> man]

PyInt(n) == [t |-> "int", v |-> n]

(***************************************************************************)
(* read_byte, read_integer, read_float, read_string                        *)
(***************************************************************************)
read_byte(f, context) ==
    IF Failed(f) THEN [f |-> f, v |-> 0]
    ELSE Bind(BinaryIO_read(f, 1, context, "byte"), LAMBDA r :
         IF Len(r.v) # 1
         THEN [f |-> [r.f EXCEPT !.err = Raise("EOFError", context)], v |-> 0]
         ELSE [f |-> r.f, v |-> r.v[1]])

read_integer(f, context) ==
    IF Failed(f) THEN [f |-> f, v |-> U32(0)]
    ELSE Bind(BinaryIO_read(f, 4, context, "integer"), LAMBDA r :
         IF Len(r.v) # 4
         THEN [f |-> [r.f EXCEPT !.err = Raise("EOFError", context)], v |-> U32(0)]
         ELSE [f |-> r.f,
               v |-> [hi |-> r.v[3] + 256 * r.v[4], lo |-> r.v[1] + 256 * r.v[2]]])

read_float(f, context) ==
    IF Failed(f) THEN [f |-> f, v |-> Float(0, 0, 0)]
    ELSE Bind(BinaryIO_read(f, 4, context, "float"), LAMBDA r :
         IF Len(r.v) # 4
         THEN [f |-> [r.f EXCEPT !.err = Raise("EOFError", context)],
               v |-> Float(0, 0, 0)]
         ELSE [f |-> r.f,
               v |-> Float(r.v[4] \div 128,
                           (r.v[4] % 128) * 2 + r.v[3] \div 128,
                           (r.v[3] % 128) * 65536 + r.v[2] * 256 + r.v[1])])

\* read_string as it would be without the comparison of the bytes obtained
\* with the length announced
read_string_unchecked(f, context) ==
    Bind(read_integer(f, context), LAMBDA n :
    IF Failed(n.f) THEN [f |-> n.f, v |-> <<>>]
    ELSE Bind(BinaryIO_read(n.f, CountOf(n.v), context, "string"), LAMBDA r :
         IF \E i \in 1..Len(r.v) : r.v[i] > 127
         THEN [f |-> [r.f EXCEPT !.err = Raise("UnicodeDecodeError", context)],
               v |-> <<>>]
         ELSE [f |-> r.f, v |-> r.v]))

read_string(f, context) ==
    Bind(read_integer(f, context), LAMBDA n :
    IF Failed(n.f) THEN [f |-> n.f, v |-> <<>>]
    ELSE Bind(BinaryIO_read(n.f, CountOf(n.v), context, "string"), LAMBDA r :
         IF Len(r.v) < CountOf(n.v)
         THEN [f |-> [r.f EXCEPT !.err = Raise("EOFError", context)], v |-> <<>>]
         ELSE IF \E i \in 1..Len(r.v) : r.v[i] > 127
         THEN [f |-> [r.f EXCEPT !.err = Raise("UnicodeDecodeError", context)],
               v |-> <<>>]
         ELSE [f |-> r.f, v |-> r.v]))

(***************************************************************************)
(* write_byte, write_integer, write_float, write_string                    *)
(***************************************************************************)
write_byte(f, value, context) ==
    IF Failed(f) THEN f
    ELSE IF value \notin 0..255
    THEN [f EXCEPT !.err = Raise("struct.error", context)]
    ELSE BinaryIO_write(f, <<value>>, context, "byte")

\* value is a Python float: it has no to_bytes, value.to_bytes(...) raises
IsFloat(value) == "t" \in DOMAIN value /\ value.t = "float"

\* write_integer as it would be if the value were reduced modulo 2^32
\* instead of being checked
write_integer_wrapping(f, value, context) ==
    IF Failed(f) THEN f
    ELSE IF IsFloat(value)
    THEN [f EXCEPT !.err = Raise("AttributeError", context)]
    ELSE BinaryIO_write(f, <<value.lo % 256, value.lo \div 256,
                             (value.hi % 65536) % 256, (value.hi % 65536) \div 256>>,
                        context, "integer")

write_integer(f, value, context) ==
    IF Failed(f) THEN f
    ELSE IF IsFloat(value)
    THEN [f EXCEPT !.err = Raise("AttributeError", context)]
    ELSE IF value.hi \notin 0..65535
    THEN [f EXCEPT !.err = Raise("OverflowError", context)]
    ELSE BinaryIO_write(f, <<value.lo % 256, value.lo \div 256,
                             value.hi % 256, value.hi \div 256>>, context, "integer")

write_float(f, value, context) ==
    IF Failed(f) THEN f
    ELSE BinaryIO_write(f, <<value.man % 256, (value.man \div 256) % 256,
                             (value.exp % 2) * 128 + value.man \div 65536,
                             value.sign * 128 + value.exp \div 2>>, context, "float")

\* write_string as it would be if an empty string were left out of the file
write_string_skip_empty(f, string, context) ==
    IF string = <<>> THEN f
    ELSE Bind(write_integer(f, U32(Len(string)), context \o " length"), LAMBDA n :
         IF Failed(n) THEN n
         ELSE IF \E i \in 1..Len(string) : string[i] > 127
         THEN [n EXCEPT !.err = Raise("UnicodeEncodeError", context)]
         ELSE BinaryIO_write(n, string, context, "string"))

write_string(f, string, context) ==
    Bind(write_integer(f, U32(Len(string)), context \o " length"), LAMBDA n :
    IF Failed(n) THEN n
    ELSE IF \E i \in 1..Len(string) : string[i] > 127
    THEN [n EXCEPT !.err = Raise("UnicodeEncodeError", context)]
    ELSE BinaryIO_write(n, string, context, "string"))

(***************************************************************************)
(* Texture                                                                 *)
(***************************************************************************)
Texture_init(layer_ID, filename) == [layer_ID |-> layer_ID, filename |-> filename]

\* Texture(): the defaults of the constructor's parameters
Texture_default == Texture_init(1, <<>>)

Texture_parse(self, f) ==
    Bind(read_byte(f, "texture layer ID"), LAMBDA layer :
    IF Failed(layer.f) THEN [f |-> layer.f, v |-> self]
    ELSE IF layer.v = 0
    THEN [f |-> layer.f, v |-> [layer_ID |-> 0, filename |-> <<>>]]
    ELSE Bind(read_string(layer.f, "texture_filename"), LAMBDA name :
         IF Failed(name.f)
         THEN [f |-> name.f, v |-> [self EXCEPT !.layer_ID = layer.v]]
         ELSE [f |-> name.f, v |-> [layer_ID |-> layer.v, filename |-> name.v]]))

\* Texture.write as it would be without the branch for layer_ID 0
Texture_write_named(self, f) ==
    write_string(write_byte(f, self.layer_ID, "texture layer ID"),
                 self.filename, "texture filename")

Texture_write(self, f) ==
    IF self.layer_ID = 0
    THEN write_byte(f, 0, "empty texture")
    ELSE write_string(write_byte(f, self.layer_ID, "texture layer ID"),
                      self.filename, "texture filename")

(***************************************************************************)
(* Python text built-ins used by the text encodings: str.split(), int(),   *)
(* round() and the decimal formatting of an f-string                       *)
(***************************************************************************)
\* the ASCII code points str.split() treats as whitespace
Whitespace == (9..13) \cup (28..32)

Digits == 48..57

RECURSIVE split_from(_, _, _, _)
split_from(s, i, cur, acc) ==
    IF i > Len(s) THEN (IF cur = <<>> THEN acc ELSE Append(acc, cur))
    ELSE IF s[i] \in Whitespace
    THEN split_from(s, i + 1, <<>>, IF cur = <<>> THEN acc ELSE Append(acc, cur))
    ELSE split_from(s, i + 1, Append(cur, s[i]), acc)

\* string.split()
str_split(s) == split_from(s, 1, <<>>, <<>>)

\* the digits of an int() literal: after an optional sign
int_body(tok) == IF tok # <<>> /\ tok[1] \in {43, 45} THEN Tail(tok) ELSE tok

\* whether int(tok) accepts tok: [sign] digit (["_"] digit)*
int_accepts(tok) ==
    LET b == int_body(tok)
    IN  /\ b # <<>>
        /\ \A i \in 1..Len(b) : b[i] \in Digits \cup {95}
        /\ b[1] \in Digits
        /\ b[Len(b)] \in Digits
        /\ \A i \in 1..(Len(b) - 1) : ~(b[i] = 95 /\ b[i + 1] = 95)

RECURSIVE int_digits(_, _, _)
int_digits(b, i, acc) ==
    IF i > Len(b) THEN acc
    ELSE IF b[i] = 95 THEN int_digits(b, i + 1, acc)
    ELSE int_digits(b, i + 1, acc * 10 + (b[i] - 48))

\* int(tok) for a token int_accepts
int_value(tok) ==
    LET m == int_digits(int_body(tok), 1, 0)
    IN  IF tok[1] = 45 THEN 0 - m ELSE m

RECURSIVE nat_str(_)
nat_str(n) == IF n < 10 THEN <<48 + n>> ELSE Append(nat_str(n \div 10), 48 + (n % 10))

\* f"{n}" for an int n
int_str(n) == IF n < 0 THEN <<45>> \o nat_str(0 - n) ELSE nat_str(n)

\* round(x) for a finite binary32 x: to the nearest integer, ties to even
round_float(x) ==
    LET m == IF x.exp = 0 THEN 0 ELSE 8388608 + x.man
        shift == 150 - x.exp
        q == m \div (2 ^ shift)
        r == m % (2 ^ shift)
        half == 2 ^ (shift - 1)
        mag == IF x.exp = 0 \/ shift > 24 THEN 0
               ELSE IF shift <= 0 THEN m * (2 ^ (0 - shift))
               ELSE IF r > half \/ (r = half /\ q % 2 = 1) THEN q + 1
               ELSE q
    IN  IF x.sign = 1 THEN 0 - mag ELSE mag

\* round(x) as it would be with ties going away from zero
py_round_half_up(x) ==
    IF x.t = "int" THEN x.v
    ELSE LET m == IF x.exp = 0 THEN 0 ELSE 8388608 + x.man
             shift == 150 - x.exp
             mag == IF x.exp = 0 \/ shift > 24 THEN 0
                    ELSE IF shift <= 0 THEN m * (2 ^ (0 - shift))
                    ELSE (m + 2 ^ (shift - 1)) \div (2 ^ shift)
         IN  IF x.sign = 1 THEN 0 - mag ELSE mag

\* round(x): an int is its own rounding
py_round(x) == IF x.t = "int" THEN x.v ELSE round_float(x)

(***************************************************************************)
(* Coordinate3, UV, Color, Angle, Scale                                    *)
(***************************************************************************)
Coordinate3_init == [x |-> Float(0, 0, 0), y |-> Float(0, 0, 0), z |-> Float(0, 0, 0)]

\* Coordinate3.parse as it would be if the wire order were x, y, z
Coordinate3_parse_xyz(self, f) ==
    Bind(read_float(f, "x-position"), LAMBDA x :
    Bind(read_float(x.f, "y-position"), LAMBDA y :
    Bind(read_float(y.f, "z-position"), LAMBDA z :
    IF Failed(z.f) THEN [f |-> z.f, v |-> self]
    ELSE [f |-> z.f, v |-> [x |-> x.v, y |-> y.v, z |-> z.v]])))

\* the wire order is x, z, y
Coordinate3_parse(self, f) ==
    Bind(read_float(f, "x-position"), LAMBDA x :
    Bind(read_float(x.f, "z-position"), LAMBDA z :
    Bind(read_float(z.f, "y-position"), LAMBDA y :
    IF Failed(y.f) THEN [f |-> y.f, v |-> self]
    ELSE [f |-> y.f, v |-> [x |-> x.v, y |-> y.v, z |-> z.v]])))

Coordinate3_write(self, f) ==
    write_float(write_float(write_float(f, self.x, "x-position"),
                            self.z, "z-position"),
                self.y, "y-position")

UV_init == [u |-> Float(0, 0, 0), v |-> Float(0, 0, 0)]

UV_parse(self, f) ==
    Bind(read_float(f, "u-position"), LAMBDA u :
    Bind(read_float(u.f, "v-position"), LAMBDA v :
    IF Failed(v.f) THEN [f |-> v.f, v |-> self]
    ELSE [f |-> v.f, v |-> [u |-> u.v, v |-> v.v]]))

UV_write(self, f) ==
    write_float(write_float(f, self.u, "u-position"), self.v, "v-position")

Color_init == [r |-> 0, g |-> 0, b |-> 0]

Color_parse_as_bytes(self, f) ==
    Bind(read_byte(f, "red value"), LAMBDA r :
    Bind(read_byte(r.f, "green value"), LAMBDA g :
    Bind(read_byte(g.f, "blue value"), LAMBDA b :
    IF Failed(b.f) THEN [f |-> b.f, v |-> self]
    ELSE [f |-> b.f, v |-> [r |-> r.v, g |-> g.v, b |-> b.v]])))

\* Color.parse_as_string as it would be if missing tokens counted as 0
Color_parse_as_string_padded(self, f) ==
    Bind(read_string(f, "color string"), LAMBDA s :
    Bind(str_split(s.v) \o <<<<48>>, <<48>>, <<48>>>>, LAMBDA toks :
    IF Failed(s.f) THEN [f |-> s.f, v |-> self]
    ELSE IF \E i \in 1..3 : ~int_accepts(toks[i])
    THEN [f |-> [s.f EXCEPT !.err = Raise("ValueError", "int()")], v |-> self]
    ELSE [f |-> s.f, v |-> [r |-> int_value(toks[1]), g |-> int_value(toks[2]),
                            b |-> int_value(toks[3])]]))

\* set_rgb(*map(int, color_string.split())): the unpacking converts every
\* token first (ValueError at a token int() rejects), then the call binds
\* exactly three arguments (TypeError otherwise).
Color_parse_as_string(self, f) ==
    Bind(read_string(f, "color string"), LAMBDA s :
    Bind(str_split(s.v), LAMBDA toks :
    IF Failed(s.f) THEN [f |-> s.f, v |-> self]
    ELSE IF \E i \in 1..Len(toks) : ~int_accepts(toks[i])
    THEN [f |-> [s.f EXCEPT !.err = Raise("ValueError", "int()")], v |-> self]
    ELSE IF Len(toks) # 3
    THEN [f |-> [s.f EXCEPT !.err = Raise("TypeError", "set_rgb()")], v |-> self]
    ELSE [f |-> s.f, v |-> [r |-> int_value(toks[1]), g |-> int_value(toks[2]),
                            b |-> int_value(toks[3])]]))

Color_write_as_bytes(self, f) ==
    write_byte(write_byte(write_byte(f, self.r, "red value"),
                          self.g, "green value"),
               self.b, "blue value")

Color_write_as_string(self, f) ==
    write_string(f, int_str(self.r) \o <<32>> \o int_str(self.g) \o <<32>>
                    \o int_str(self.b), "color string")

Angle_init == [pitch |-> Float(0, 0, 0), yaw |-> Float(0, 0, 0), roll |-> Float(0, 0, 0)]

Angle_parse_as_bytes(self, f) ==
    Bind(read_float(f, "pitch value"), LAMBDA p :
    Bind(read_float(p.f, "yaw value"), LAMBDA y :
    Bind(read_float(y.f, "roll value"), LAMBDA r :
    IF Failed(r.f) THEN [f |-> r.f, v |-> self]
    ELSE [f |-> r.f, v |-> [pitch |-> p.v, yaw |-> y.v, roll |-> r.v]])))

Angle_parse_as_string(self, f) ==
    Bind(read_string(f, "angle string"), LAMBDA s :
    Bind(str_split(s.v), LAMBDA toks :
    IF Failed(s.f) THEN [f |-> s.f, v |-> self]
    ELSE IF \E i \in 1..Len(toks) : ~int_accepts(toks[i])
    THEN [f |-> [s.f EXCEPT !.err = Raise("ValueError", "int()")], v |-> self]
    ELSE IF Len(toks) # 3
    THEN [f |-> [s.f EXCEPT !.err = Raise("TypeError", "set_angle()")], v |-> self]
    ELSE [f |-> s.f, v |-> [pitch |-> PyInt(int_value(toks[1])),
                            yaw |-> PyInt(int_value(toks[2])),
                            roll |-> PyInt(int_value(toks[3]))]]))

Angle_write_as_bytes(self, f) ==
    write_float(write_float(write_float(f, self.pitch, "pitch value"),
                            self.yaw, "yaw value"),
                self.roll, "roll value")

\* a float round() cannot convert: an infinity or a NaN
NonFinite(x) == x.t = "float" /\ x.exp = 255

\* round(x) raises OverflowError at an infinity and ValueError at a NaN
round_error(x) == Raise(IF x.man = 0 THEN "OverflowError" ELSE "ValueError", "round()")

\* the f-string evaluates round(pitch), round(yaw), round(roll) in this order
Angle_write_as_string(self, f) ==
    IF Failed(f) THEN f
    ELSE IF NonFinite(self.pitch) THEN [f EXCEPT !.err = round_error(self.pitch)]
    ELSE IF NonFinite(self.yaw) THEN [f EXCEPT !.err = round_error(self.yaw)]
    ELSE IF NonFinite(self.roll) THEN [f EXCEPT !.err = round_error(self.roll)]
    ELSE write_string(f, int_str(py_round(self.pitch)) \o <<32>>
                         \o int_str(py_round(self.yaw)) \o <<32>>
                         \o int_str(py_round(self.roll)), "angle string")

Scale_init == [x_scale |-> Float(0, 127, 0), y_scale |-> Float(0, 127, 0),
               z_scale |-> Float(0, 127, 0)]

Scale_parse(self, f) ==
    Bind(read_float(f, "x-scale"), LAMBDA x :
    Bind(read_float(x.f, "y-scale"), LAMBDA y :
    Bind(read_float(y.f, "z-scale"), LAMBDA z :
    IF Failed(z.f) THEN [f |-> z.f, v |-> self]
    ELSE [f |-> z.f, v |-> [x_scale |-> x.v, y_scale |-> y.v, z_scale |-> z.v]])))

Scale_write(self, f) ==
    write_float(write_float(write_float(f, self.x_scale, "x-scale"),
                            self.y_scale, "y-scale"),
                self.z_scale, "z-scale")

(***************************************************************************)
(* Vertex, Triangle                                                        *)
(***************************************************************************)
Vertex_init == [pos |-> Coordinate3_init, uv_1 |-> UV_init, uv_2 |-> UV_init,
                color |-> Color_init]

Vertex_parse(self, f) ==
    Bind(Coordinate3_parse(self.pos, f), LAMBDA p :
    Bind(UV_parse(self.uv_1, p.f), LAMBDA a :
    Bind(UV_parse(self.uv_2, a.f), LAMBDA b :
    Bind(Color_parse_as_bytes(self.color, b.f), LAMBDA c :
    [f |-> c.f, v |-> [pos |-> p.v, uv_1 |-> a.v, uv_2 |-> b.v, color |-> c.v]]))))

Vertex_write(self, f) ==
    Color_write_as_bytes(self.color,
        UV_write(self.uv_2, UV_write(self.uv_1, Coordinate3_write(self.pos, f))))

Triangle_init == [index_1 |-> U32(0), index_2 |-> U32(0), index_3 |-> U32(0)]

Triangle_parse(self, f) ==
    Bind(read_integer(f, "triangle index 1"), LAMBDA a :
    Bind(read_integer(a.f, "triangle index 2"), LAMBDA b :
    Bind(read_integer(b.f, "triangle index 3"), LAMBDA c :
    IF Failed(c.f) THEN [f |-> c.f, v |-> self]
    ELSE [f |-> c.f, v |-> [index_1 |-> a.v, index_2 |-> b.v, index_3 |-> c.v]])))

Triangle_write(self, f) ==
    write_integer(write_integer(write_integer(f, self.index_1, "integer data"),
                                self.index_2, "integer data"),
                  self.index_3, "integer data")

(***************************************************************************)
(* Object                                                                  *)
(***************************************************************************)
Object_init == [textures |-> <<>>, vertices |-> <<>>, triangles |-> <<>>]

\* for _ in range(2): texture = Texture(); texture.parse(file); append
RECURSIVE Object_parse_textures(_, _, _)
Object_parse_textures(f, n, acc) ==
    IF n = 0 \/ Failed(f) THEN [f |-> f, v |-> acc]
    ELSE Bind(Texture_parse(Texture_default, f), LAMBDA e :
         IF Failed(e.f) THEN [f |-> e.f, v |-> acc]
         ELSE Object_parse_textures(e.f, n - 1, Append(acc, e.v)))

RECURSIVE Object_parse_vertices(_, _, _)
Object_parse_vertices(f, n, acc) ==
    IF n = 0 \/ Failed(f) THEN [f |-> f, v |-> acc]
    ELSE Bind(Vertex_parse(Vertex_init, f), LAMBDA e :
         IF Failed(e.f) THEN [f |-> e.f, v |-> acc]
         ELSE Object_parse_vertices(e.f, n - 1, Append(acc, e.v)))

\* the triangle loop of Object.parse; Collision.parse has the same loop
RECURSIVE parse_triangles(_, _, _)
parse_triangles(f, n, acc) ==
    IF n = 0 \/ Failed(f) THEN [f |-> f, v |-> acc]
    ELSE Bind(Triangle_parse(Triangle_init, f), LAMBDA e :
         IF Failed(e.f) THEN [f |-> e.f, v |-> acc]
         ELSE parse_triangles(e.f, n - 1, Append(acc, e.v)))

Object_parse(self, f) ==
    Bind(Object_parse_textures(f, 2, self.textures), LAMBDA ts :
    Bind(read_integer(ts.f, "object vertex count"), LAMBDA vc :
    Bind(Object_parse_vertices(vc.f, CountOf(vc.v), self.vertices), LAMBDA vs :
    Bind(read_integer(vs.f, "object triangle count"), LAMBDA tc :
    Bind(parse_triangles(tc.f, CountOf(tc.v), self.triangles), LAMBDA tr :
    [f |-> tr.f, v |-> [textures |-> ts.v, vertices |-> vs.v, triangles |-> tr.v]])))))

\* while len(self.textures) < 2: self.textures.insert(0, Texture())
\* the padding as it would be with an `if` in place of the `while`
Object_pad_textures_once(textures) ==
    IF Len(textures) < 2 THEN <<Texture_default>> \o textures ELSE textures

RECURSIVE Object_pad_textures(_)
Object_pad_textures(textures) ==
    IF Len(textures) < 2 THEN Object_pad_textures(<<Texture_default>> \o textures)
    ELSE textures

RECURSIVE write_textures(_, _, _)
write_textures(f, textures, i) ==
    IF i > Len(textures) THEN f
    ELSE Bind(Texture_write(textures[i], f), LAMBDA g :
         write_textures(g, textures, i + 1))

RECURSIVE write_vertices(_, _, _)
write_vertices(f, vertices, i) ==
    IF i > Len(vertices) THEN f
    ELSE Bind(Vertex_write(vertices[i], f), LAMBDA g :
         write_vertices(g, vertices, i + 1))

\* the triangle loop of write as it would be if it emitted no element
write_triangles_none(f, triangles, i) == f

\* the triangle loop of Object.write; Collision.write has the same loop
RECURSIVE write_triangles(_, _, _)
write_triangles(f, triangles, i) ==
    IF i > Len(triangles) THEN f
    ELSE Bind(Triangle_write(triangles[i], f), LAMBDA g :
         write_triangles(g, triangles, i + 1))

\* Object.write changes self (the padding) and the file
Object_write(self, f) ==
    Bind(Object_pad_textures(self.textures), LAMBDA textures :
    Bind(write_textures(f, textures, 1), LAMBDA a :
    Bind(write_integer(a, U32(Len(self.vertices)), "object vertex count"), LAMBDA b :
    Bind(write_vertices(b, self.vertices, 1), LAMBDA c :
    Bind(write_integer(c, U32(Len(self.triangles)), "object triangle count"), LAMBDA d :
    [f |-> write_triangles(d, self.triangles, 1),
     v |-> [self EXCEPT !.textures = textures]])))))

(***************************************************************************)
(* Collision, TriggerBox                                                   *)
(***************************************************************************)
Collision_init == [vertices |-> <<>>, triangles |-> <<>>]

RECURSIVE Collision_parse_vertices(_, _, _)
Collision_parse_vertices(f, n, acc) ==
    IF n = 0 \/ Failed(f) THEN [f |-> f, v |-> acc]
    ELSE Bind(Coordinate3_parse(Coordinate3_init, f), LAMBDA e :
         IF Failed(e.f) THEN [f |-> e.f, v |-> acc]
         ELSE Collision_parse_vertices(e.f, n - 1, Append(acc, e.v)))

Collision_parse(self, f) ==
    Bind(read_integer(f, "collision vertex count"), LAMBDA vc :
    Bind(Collision_parse_vertices(vc.f, CountOf(vc.v), self.vertices), LAMBDA vs :
    Bind(read_integer(vs.f, "collision triangle count"), LAMBDA tc :
    Bind(parse_triangles(tc.f, CountOf(tc.v), self.triangles), LAMBDA tr :
    [f |-> tr.f, v |-> [vertices |-> vs.v, triangles |-> tr.v]]))))

RECURSIVE Collision_write_vertices(_, _, _)
Collision_write_vertices(f, vertices, i) ==
    IF i > Len(vertices) THEN f
    ELSE Bind(Coordinate3_write(vertices[i], f), LAMBDA g :
         Collision_write_vertices(g, vertices, i + 1))

Collision_write(self, f) ==
    Bind(write_integer(f, U32(Len(self.vertices)), "collision vertex count"), LAMBDA a :
    Bind(Collision_write_vertices(a, self.vertices, 1), LAMBDA b :
    Bind(write_integer(b, U32(Len(self.triangles)), "collision triangle count"), LAMBDA c :
    write_triangles(c, self.triangles, 1))))

TriggerBox_init == [collisions |-> <<>>, name |-> <<>>]

\* the collision loop of TriggerBox.parse; RoomMesh.parse has the same loop
RECURSIVE parse_collisions(_, _, _)
parse_collisions(f, n, acc) ==
    IF n = 0 \/ Failed(f) THEN [f |-> f, v |-> acc]
    ELSE Bind(Collision_parse(Collision_init, f), LAMBDA e :
         IF Failed(e.f) THEN [f |-> e.f, v |-> acc]
         ELSE parse_collisions(e.f, n - 1, Append(acc, e.v)))

TriggerBox_parse(self, f) ==
    Bind(read_integer(f, "trigger box collision count"), LAMBDA cc :
    Bind(parse_collisions(cc.f, CountOf(cc.v), self.collisions), LAMBDA cs :
    Bind(read_string(cs.f, "trigger box name"), LAMBDA nm :
    [f |-> nm.f,
     v |-> [collisions |-> cs.v,
            name |-> IF Failed(nm.f) THEN self.name ELSE nm.v]])))

\* the collision loop of TriggerBox.write; RoomMesh.write has the same loop
RECURSIVE write_collisions(_, _, _)
write_collisions(f, collisions, i) ==
    IF i > Len(collisions) THEN f
    ELSE Bind(Collision_write(collisions[i], f), LAMBDA g :
         write_collisions(g, collisions, i + 1))

TriggerBox_write(self, f) ==
    Bind(write_integer(f, U32(Len(self.collisions)), "trigger box collision count"), LAMBDA a :
    Bind(write_collisions(a, self.collisions, 1), LAMBDA b :
    write_string(b, self.name, "trigger box name")))

(***************************************************************************)
(* The string literals of the format, as code points                       *)
(***************************************************************************)
\* "RoomMesh"
SIG_ROOMMESH == <<82, 111, 111, 109, 77, 101, 115, 104>>

\* "RoomMesh.HasTriggerBox"
SIG_HASTRIGGERBOX == SIG_ROOMMESH \o <<46, 72, 97, 115, 84, 114, 105, 103, 103, 101, 114, 66, 111, 120>>

\* "screen", "waypoint", "light", "spotlight", "soundemitter", "playerstart", "model"
CN_SCREEN == <<115, 99, 114, 101, 101, 110>>

CN_WAYPOINT == <<119, 97, 121, 112, 111, 105, 110, 116>>

CN_LIGHT == <<108, 105, 103, 104, 116>>

CN_SPOTLIGHT == <<115, 112, 111, 116, 108, 105, 103, 104, 116>>

CN_SOUNDEMITTER == <<115, 111, 117, 110, 100, 101, 109, 105, 116, 116, 101, 114>>

CN_PLAYERSTART == <<112, 108, 97, 121, 101, 114, 115, 116, 97, 114, 116>>

CN_MODEL == <<109, 111, 100, 101, 108>>

\* "EOF"
STR_EOF == <<69, 79, 70>>

\* the classnames RoomMesh.parse has a case for
KnownClassnames == {CN_SCREEN, CN_WAYPOINT, CN_LIGHT, CN_SPOTLIGHT, CN_SOUNDEMITTER,
                    CN_PLAYERSTART, CN_MODEL}

(***************************************************************************)
(* The seven Point variants.  Each parse is entered after RoomMesh.parse   *)
(* has read the classname.                                                 *)
(***************************************************************************)
Screen_init == [classname |-> CN_SCREEN, pos |-> Coordinate3_init, path |-> <<>>]

Screen_parse(self, f) ==
    Bind(Coordinate3_parse(self.pos, f), LAMBDA p :
    Bind(read_string(p.f, "screen image path"), LAMBDA s :
    [f |-> s.f, v |-> [self EXCEPT !.pos = p.v,
                                   !.path = IF Failed(s.f) THEN @ ELSE s.v]]))

Screen_write(self, f) ==
    Bind(write_string(f, self.classname, "screen classname"), LAMBDA a :
    Bind(Coordinate3_write(self.pos, a), LAMBDA b :
    write_string(b, self.path, "screen image path")))

Waypoint_init == [classname |-> CN_WAYPOINT, pos |-> Coordinate3_init]

Waypoint_parse(self, f) ==
    Bind(Coordinate3_parse(self.pos, f), LAMBDA p :
    [f |-> p.f, v |-> [self EXCEPT !.pos = p.v]])

Waypoint_write(self, f) ==
    Coordinate3_write(self.pos, write_string(f, self.classname, "waypoint classname"))

Light_init == [classname |-> CN_LIGHT, pos |-> Coordinate3_init,
               range |-> Float(0, 0, 0), color |-> Color_init,
               intensity |-> Float(0, 0, 0)]

Light_parse(self, f) ==
    Bind(Coordinate3_parse(self.pos, f), LAMBDA p :
    Bind(read_float(p.f, "light range"), LAMBDA r :
    Bind(Color_parse_as_string(self.color, r.f), LAMBDA c :
    Bind(read_float(c.f, "light intensity"), LAMBDA i :
    [f |-> i.f,
     v |-> [self EXCEPT !.pos = p.v,
                        !.range = IF Failed(r.f) THEN @ ELSE r.v,
                        !.color = c.v,
                        !.intensity = IF Failed(i.f) THEN @ ELSE i.v]]))))

Light_write(self, f) ==
    Bind(write_string(f, self.classname, "light classname"), LAMBDA a :
    Bind(Coordinate3_write(self.pos, a), LAMBDA b :
    Bind(write_float(b, self.range, "light range"), LAMBDA c :
    Bind(Color_write_as_string(self.color, c), LAMBDA d :
    write_float(d, self.intensity, "light intensity")))))

Spotlight_init == [classname |-> CN_SPOTLIGHT, pos |-> Coordinate3_init,
                   range |-> Float(0, 0, 0), color |-> Color_init,
                   intensity |-> Float(0, 0, 0), angle |-> Angle_init,
                   inner_angle |-> U32(0), outer_angle |-> U32(0)]

Spotlight_parse(self, f) ==
    Bind(Coordinate3_parse(self.pos, f), LAMBDA p :
    Bind(read_float(p.f, "spotlight range"), LAMBDA r :
    Bind(Color_parse_as_string(self.color, r.f), LAMBDA c :
    Bind(read_float(c.f, "spotlight intensity"), LAMBDA i :
    Bind(Angle_parse_as_string(self.angle, i.f), LAMBDA a :
    Bind(read_integer(a.f, "spotlight inner angle"), LAMBDA n :
    Bind(read_integer(n.f, "spotlight outer angle"), LAMBDA o :
    [f |-> o.f,
     v |-> [self EXCEPT !.pos = p.v,
                        !.range = IF Failed(r.f) THEN @ ELSE r.v,
                        !.color = c.v,
                        !.intensity = IF Failed(i.f) THEN @ ELSE i.v,
                        !.angle = a.v,
                        !.inner_angle = IF Failed(n.f) THEN @ ELSE n.v,
                        !.outer_angle = IF Failed(o.f) THEN @ ELSE o.v]])))))))

Spotlight_write(self, f) ==
    Bind(write_string(f, self.classname, "spotlight classname"), LAMBDA a :
    Bind(Coordinate3_write(self.pos, a), LAMBDA b :
    Bind(write_float(b, self.range, "spotlight range"), LAMBDA c :
    Bind(Color_write_as_string(self.color, c), LAMBDA d :
    Bind(write_float(d, self.intensity, "spotlight intensity"), LAMBDA e :
    Bind(Angle_write_as_string(self.angle, e), LAMBDA g :
    Bind(write_integer(g, self.inner_angle, "spotlight inner angle"), LAMBDA h :
    write_integer(h, self.outer_angle, "spotlight outer angle"))))))))

SoundEmitter_init == [classname |-> CN_SOUNDEMITTER, pos |-> Coordinate3_init,
                      sound |-> U32(0), range |-> Float(0, 0, 0)]

SoundEmitter_parse(self, f) ==
    Bind(Coordinate3_parse(self.pos, f), LAMBDA p :
    Bind(read_integer(p.f, "sound emitter sound"), LAMBDA s :
    Bind(read_float(s.f, "sound emitter range"), LAMBDA r :
    [f |-> r.f,
     v |-> [self EXCEPT !.pos = p.v,
                        !.sound = IF Failed(s.f) THEN @ ELSE s.v,
                        !.range = IF Failed(r.f) THEN @ ELSE r.v]])))

SoundEmitter_write(self, f) ==
    Bind(write_string(f, self.classname, "sound emitter classname"), LAMBDA a :
    Bind(Coordinate3_write(self.pos, a), LAMBDA b :
    Bind(write_integer(b, self.sound, "sound emitter sound"), LAMBDA c :
    write_float(c, self.range, "sound emitter range"))))

PlayerStart_init == [classname |-> CN_PLAYERSTART, pos |-> Coordinate3_init,
                     angle |-> Angle_init]

PlayerStart_parse(self, f) ==
    Bind(Coordinate3_parse(self.pos, f), LAMBDA p :
    Bind(Angle_parse_as_string(self.angle, p.f), LAMBDA a :
    [f |-> a.f, v |-> [self EXCEPT !.pos = p.v, !.angle = a.v]]))

PlayerStart_write(self, f) ==
    Bind(write_string(f, self.classname, "player start classname"), LAMBDA a :
    Bind(Coordinate3_write(self.pos, a), LAMBDA b :
    Angle_write_as_string(self.angle, b)))

Model_init == [classname |-> CN_MODEL, path |-> <<>>, pos |-> Coordinate3_init,
               angle |-> Angle_init, scale |-> Scale_init]

Model_parse(self, f) ==
    Bind(read_string(f, "model path"), LAMBDA s :
    Bind(Coordinate3_parse(self.pos, s.f), LAMBDA p :
    Bind(Angle_parse_as_bytes(self.angle, p.f), LAMBDA a :
    Bind(Scale_parse(self.scale, a.f), LAMBDA c :
    [f |-> c.f,
     v |-> [self EXCEPT !.path = IF Failed(s.f) THEN @ ELSE s.v,
                        !.pos = p.v, !.angle = a.v, !.scale = c.v]]))))

\* Model.write as it would be with the position ahead of the path
Model_write_pos_first(self, f) ==
    Bind(write_string(f, self.classname, "model classname"), LAMBDA a :
    Bind(Coordinate3_write(self.pos, a), LAMBDA b :
    Bind(write_string(b, self.path, "model path"), LAMBDA c :
    Bind(Angle_write_as_bytes(self.angle, c), LAMBDA d :
    Scale_write(self.scale, d)))))

Model_write(self, f) ==
    Bind(write_string(f, self.classname, "model classname"), LAMBDA a :
    Bind(write_string(a, self.path, "model path"), LAMBDA b :
    Bind(Coordinate3_write(self.pos, b), LAMBDA c :
    Bind(Angle_write_as_bytes(self.angle, c), LAMBDA d :
    Scale_write(self.scale, d)))))

\* point.write(file): the method of the point's class
Point_write(self, f) ==
    CASE self.classname = CN_SCREEN -> Screen_write(self, f)
      [] self.classname = CN_WAYPOINT -> Waypoint_write(self, f)
      [] self.classname = CN_LIGHT -> Light_write(self, f)
      [] self.classname = CN_SPOTLIGHT -> Spotlight_write(self, f)
      [] self.classname = CN_SOUNDEMITTER -> SoundEmitter_write(self, f)
      [] self.classname = CN_PLAYERSTART -> PlayerStart_write(self, f)
      [] self.classname = CN_MODEL -> Model_write(self, f)

(***************************************************************************)
(* RoomMesh                                                                *)
(***************************************************************************)
RoomMesh_init == [signature |-> <<>>, objects |-> <<>>, collisions |-> <<>>,
                  triggers |-> <<>>, points |-> <<>>]

\* the object loop as it would be with the append before the parse
RECURSIVE RoomMesh_parse_objects_append_first(_, _, _)
RoomMesh_parse_objects_append_first(f, n, acc) ==
    IF n = 0 \/ Failed(f) THEN [f |-> f, v |-> acc]
    ELSE Bind(Object_parse(Object_init, f), LAMBDA e :
         IF Failed(e.f) THEN [f |-> e.f, v |-> Append(acc, e.v)]
         ELSE RoomMesh_parse_objects_append_first(e.f, n - 1, Append(acc, e.v)))

RECURSIVE RoomMesh_parse_objects(_, _, _)
RoomMesh_parse_objects(f, n, acc) ==
    IF n = 0 \/ Failed(f) THEN [f |-> f, v |-> acc]
    ELSE Bind(Object_parse(Object_init, f), LAMBDA e :
         IF Failed(e.f) THEN [f |-> e.f, v |-> acc]
         ELSE RoomMesh_parse_objects(e.f, n - 1, Append(acc, e.v)))

RECURSIVE RoomMesh_parse_triggers(_, _, _)
RoomMesh_parse_triggers(f, n, acc) ==
    IF n = 0 \/ Failed(f) THEN [f |-> f, v |-> acc]
    ELSE Bind(TriggerBox_parse(TriggerBox_init, f), LAMBDA e :
         IF Failed(e.f) THEN [f |-> e.f, v |-> acc]
         ELSE RoomMesh_parse_triggers(e.f, n - 1, Append(acc, e.v)))

\* the match as it would be with a default case that skips a body of one word
RoomMesh_parse_point_skip(classname, f) ==
    CASE classname = CN_SCREEN -> [hit |-> TRUE, r |-> Screen_parse(Screen_init, f)]
      [] classname = CN_WAYPOINT -> [hit |-> TRUE, r |-> Waypoint_parse(Waypoint_init, f)]
      [] classname = CN_LIGHT -> [hit |-> TRUE, r |-> Light_parse(Light_init, f)]
      [] classname = CN_SPOTLIGHT ->
            [hit |-> TRUE, r |-> Spotlight_parse(Spotlight_init, f)]
      [] classname = CN_SOUNDEMITTER ->
            [hit |-> TRUE, r |-> SoundEmitter_parse(SoundEmitter_init, f)]
      [] classname = CN_PLAYERSTART ->
            [hit |-> TRUE, r |-> PlayerStart_parse(PlayerStart_init, f)]
      [] classname = CN_MODEL -> [hit |-> TRUE, r |-> Model_parse(Model_init, f)]
      [] OTHER -> [hit |-> FALSE,
                   r |-> [f |-> read_integer(f, "unknown point body").f, v |-> <<>>]]

\* match classname: the case taken constructs and parses the variant; no
\* case matches an unknown classname and nothing is read or appended.
RoomMesh_parse_point(classname, f) ==
    CASE classname = CN_SCREEN -> [hit |-> TRUE, r |-> Screen_parse(Screen_init, f)]
      [] classname = CN_WAYPOINT -> [hit |-> TRUE, r |-> Waypoint_parse(Waypoint_init, f)]
      [] classname = CN_LIGHT -> [hit |-> TRUE, r |-> Light_parse(Light_init, f)]
      [] classname = CN_SPOTLIGHT ->
            [hit |-> TRUE, r |-> Spotlight_parse(Spotlight_init, f)]
      [] classname = CN_SOUNDEMITTER ->
            [hit |-> TRUE, r |-> SoundEmitter_parse(SoundEmitter_init, f)]
      [] classname = CN_PLAYERSTART ->
            [hit |-> TRUE, r |-> PlayerStart_parse(PlayerStart_init, f)]
      [] classname = CN_MODEL -> [hit |-> TRUE, r |-> Model_parse(Model_init, f)]
      [] OTHER -> [hit |-> FALSE, r |-> [f |-> f, v |-> <<>>]]

\* the point loop as it would be with insert(0, point) in place of append(point)
RECURSIVE RoomMesh_parse_points_prepend(_, _, _)
RoomMesh_parse_points_prepend(f, n, acc) ==
    IF n = 0 \/ Failed(f) THEN [f |-> f, v |-> acc]
    ELSE Bind(read_string(f, "point classname"), LAMBDA classname :
         Bind(RoomMesh_parse_point(classname.v, classname.f), LAMBDA e :
         IF Failed(classname.f) THEN [f |-> classname.f, v |-> acc]
         ELSE IF Failed(e.r.f) THEN [f |-> e.r.f, v |-> acc]
         ELSE RoomMesh_parse_points_prepend(e.r.f, n - 1,
                                            IF e.hit THEN <<e.r.v>> \o acc ELSE acc)))

RECURSIVE RoomMesh_parse_points(_, _, _)
RoomMesh_parse_points(f, n, acc) ==
    IF n = 0 \/ Failed(f) THEN [f |-> f, v |-> acc]
    ELSE Bind(read_string(f, "point classname"), LAMBDA classname :
         Bind(RoomMesh_parse_point(classname.v, classname.f), LAMBDA e :
         IF Failed(classname.f) THEN [f |-> classname.f, v |-> acc]
         ELSE IF Failed(e.r.f) THEN [f |-> e.r.f, v |-> acc]
         ELSE RoomMesh_parse_points(e.r.f, n - 1,
                                    IF e.hit THEN Append(acc, e.r.v) ELSE acc)))

\* the signature test as it would be with startswith("RoomMesh")
RoomMesh_check_signature_prefix(signature, f) ==
    IF ~Failed(f) /\ (\/ Len(signature) < Len(SIG_ROOMMESH)
                      \/ SubSeq(signature, 1, Len(SIG_ROOMMESH)) # SIG_ROOMMESH)
    THEN [f EXCEPT !.err = Raise("ValueError", "Unexpected signature string")]
    ELSE f

\* if self.signature not in ("RoomMesh", "RoomMesh.HasTriggerBox"): raise ValueError
RoomMesh_check_signature(signature, f) ==
    IF ~Failed(f) /\ signature \notin {SIG_ROOMMESH, SIG_HASTRIGGERBOX}
    THEN [f EXCEPT !.err = Raise("ValueError", "Unexpected signature string")]
    ELSE f

\* the trigger section of parse as it would be if the count were read
\* whatever the signature is
RoomMesh_parse_trigger_section_always(self, signature, f) ==
    Bind(read_integer(f, "trigger count"), LAMBDA tc :
    RoomMesh_parse_triggers(tc.f, CountOf(tc.v), self.triggers))

\* if self.signature == 'RoomMesh.HasTriggerBox': the trigger count and the triggers
RoomMesh_parse_trigger_section(self, signature, f) ==
    IF signature = SIG_HASTRIGGERBOX
    THEN Bind(read_integer(f, "trigger count"), LAMBDA tc :
         RoomMesh_parse_triggers(tc.f, CountOf(tc.v), self.triggers))
    ELSE [f |-> f, v |-> self.triggers]

\* RoomMesh.parse as it would be if it read the end-of-file string back
RoomMesh_parse_with_sentinel(self, f) ==
    Bind(read_string(f, "file signature"), LAMBDA sig :
    Bind(IF Failed(sig.f) THEN self.signature ELSE sig.v, LAMBDA signature :
    Bind(read_integer(RoomMesh_check_signature(signature, sig.f), "object count"), LAMBDA oc :
    Bind(RoomMesh_parse_objects(oc.f, CountOf(oc.v), self.objects), LAMBDA os :
    Bind(read_integer(os.f, "collision count"), LAMBDA cc :
    Bind(parse_collisions(cc.f, CountOf(cc.v), self.collisions), LAMBDA cs :
    Bind(RoomMesh_parse_trigger_section(self, signature, cs.f), LAMBDA ts :
    Bind(read_integer(ts.f, "point count"), LAMBDA pcount :
    Bind(RoomMesh_parse_points(pcount.f, CountOf(pcount.v), self.points), LAMBDA ps :
    [f |-> read_string(ps.f, "end of file").f,
     v |-> [signature |-> signature, objects |-> os.v, collisions |-> cs.v,
            triggers |-> ts.v, points |-> ps.v]])))))))))

RoomMesh_parse(self, f) ==
    Bind(read_string(f, "file signature"), LAMBDA sig :
    Bind(IF Failed(sig.f) THEN self.signature ELSE sig.v, LAMBDA signature :
    Bind(read_integer(RoomMesh_check_signature(signature, sig.f), "object count"), LAMBDA oc :
    Bind(RoomMesh_parse_objects(oc.f, CountOf(oc.v), self.objects), LAMBDA os :
    Bind(read_integer(os.f, "collision count"), LAMBDA cc :
    Bind(parse_collisions(cc.f, CountOf(cc.v), self.collisions), LAMBDA cs :
    Bind(RoomMesh_parse_trigger_section(self, signature, cs.f), LAMBDA ts :
    Bind(read_integer(ts.f, "point count"), LAMBDA pcount :
    Bind(RoomMesh_parse_points(pcount.f, CountOf(pcount.v), self.points), LAMBDA ps :
    [f |-> ps.f,
     v |-> [signature |-> signature, objects |-> os.v, collisions |-> cs.v,
            triggers |-> ts.v, points |-> ps.v]])))))))))

RECURSIVE RoomMesh_write_objects(_, _, _)
RoomMesh_write_objects(f, objects, i) ==
    IF i > Len(objects) \/ Failed(f) THEN [f |-> f, v |-> objects]
    ELSE Bind(Object_write(objects[i], f), LAMBDA w :
         RoomMesh_write_objects(w.f, [objects EXCEPT ![i] = w.v], i + 1))

RECURSIVE RoomMesh_write_triggers(_, _, _)
RoomMesh_write_triggers(f, triggers, i) ==
    IF i > Len(triggers) THEN f
    ELSE Bind(TriggerBox_write(triggers[i], f), LAMBDA g :
         RoomMesh_write_triggers(g, triggers, i + 1))

RECURSIVE RoomMesh_write_points(_, _, _)
RoomMesh_write_points(f, points, i) ==
    IF i > Len(points) THEN f
    ELSE Bind(Point_write(points[i], f), LAMBDA g :
         RoomMesh_write_points(g, points, i + 1))

\* the trigger section of write as it would be without the test of the list
RoomMesh_write_trigger_section_always(self, f) ==
    RoomMesh_write_triggers(
        write_integer(f, U32(Len(self.triggers)), "trigger count"),
        self.triggers, 1)

\* the trigger section of write as it would be if the signature decided
RoomMesh_write_trigger_section_by_signature(self, f) ==
    IF self.signature = SIG_HASTRIGGERBOX
    THEN RoomMesh_write_triggers(
             write_integer(f, U32(Len(self.triggers)), "trigger count"),
             self.triggers, 1)
    ELSE f

\* if len(self.triggers) > 0: the trigger count and the triggers
RoomMesh_write_trigger_section(self, f) ==
    IF Len(self.triggers) > 0
    THEN RoomMesh_write_triggers(
             write_integer(f, U32(Len(self.triggers)), "trigger count"),
             self.triggers, 1)
    ELSE f

\* the end of write as it would be if the signature decided on the "EOF" too
RoomMesh_write_tail_by_signature(self, f) ==
    IF self.signature = SIG_HASTRIGGERBOX
    THEN write_string(f, STR_EOF, "end of file")
    ELSE f

\* write_string(file, "EOF", "end of file"): the last statement of write
RoomMesh_write_tail(self, f) == write_string(f, STR_EOF, "end of file")

\* RoomMesh.write changes the file and, through Object.write, the objects
RoomMesh_write(self, f) ==
    Bind(write_string(f, self.signature, "file signature"), LAMBDA a :
    Bind(write_integer(a, U32(Len(self.objects)), "object count"), LAMBDA b :
    Bind(RoomMesh_write_objects(b, self.objects, 1), LAMBDA os :
    Bind(write_integer(os.f, U32(Len(self.collisions)), "collision count"), LAMBDA c :
    Bind(write_collisions(c, self.collisions, 1), LAMBDA d :
    Bind(RoomMesh_write_trigger_section(self, d), LAMBDA e :
    Bind(write_integer(e, U32(Len(self.points)), "point count"), LAMBDA g :
    Bind(RoomMesh_write_points(g, self.points, 1), LAMBDA h :
    [f |-> RoomMesh_write_tail(self, h),
     v |-> [self EXCEPT !.objects = os.v]]))))))))

(***************************************************************************)
(* Bounds                                                                  *)
(***************************************************************************)
\* records (objects, collisions, triggers, points) in an input file
MaxWireItems == 2

\* elements the exporter appends to a RoomMesh before writing it
MaxItems == 2

\* truncation is explored for the files parse consumed at most this many bytes of
MaxTruncLen == 90

\* a scene of trigger meshes alone holds at most this many of them
MaxTriggerObjects == 3

(***************************************************************************)
(* Input files, written out field by field (independent of the writers     *)
(* above): the bytes a RoomMesh file on disk may hold.                     *)
(***************************************************************************)
W_u32(n) == <<n % 256, n \div 256, 0, 0>>

W_str(s) == W_u32(Len(s)) \o s

\* 0.0, 1.0, -2.5 as binary32, little-endian
W_ZERO == <<0, 0, 0, 0>>

W_ONE == <<0, 0, 128, 63>>

W_NEG == <<0, 0, 32, 192>>

\* x = 1.0, z = 0.0, y = -2.5
W_pos == W_ONE \o W_ZERO \o W_NEG

RECURSIVE Flat(_)
Flat(seqs) == IF seqs = <<>> THEN <<>> ELSE Head(seqs) \o Flat(Tail(seqs))

\* two empty textures, no vertex, no triangle
W_object_empty == <<0, 0>> \o W_u32(0) \o W_u32(0)

\* texture 1 "a.jpg", an empty texture, one vertex, one triangle
W_object_full ==
    <<1>> \o W_str(<<97, 46, 106, 112, 103>>) \o <<0>>
    \o W_u32(1) \o W_pos \o W_ONE \o W_ZERO \o W_ZERO \o W_ONE \o <<255, 128, 0>>
    \o W_u32(1) \o W_u32(0) \o W_u32(1) \o W_u32(2)

W_collision == W_u32(1) \o W_pos \o W_u32(1) \o W_u32(0) \o W_u32(0) \o W_u32(0)

\* one empty collision, name "t1"
W_trigger == W_u32(1) \o W_u32(0) \o W_u32(0) \o W_str(<<116, 49>>)

\* image "a.jpg"
W_screen == W_str(CN_SCREEN) \o W_pos \o W_str(<<97, 46, 106, 112, 103>>)

W_waypoint == W_str(CN_WAYPOINT) \o W_pos

\* color "255 128 0"
W_light == W_str(CN_LIGHT) \o W_pos \o W_ONE \o W_str(<<50, 53, 53, 32, 49, 50, 56, 32, 48>>) \o W_NEG

\* color "255 128 0", angle "90 0 -45", cone 30 / 45
W_spotlight ==
    W_str(CN_SPOTLIGHT) \o W_pos \o W_ONE \o W_str(<<50, 53, 53, 32, 49, 50, 56, 32, 48>>) \o W_NEG
    \o W_str(<<57, 48, 32, 48, 32, 45, 52, 53>>) \o W_u32(30) \o W_u32(45)

W_soundemitter == W_str(CN_SOUNDEMITTER) \o W_pos \o W_u32(3) \o W_ONE

\* angle "0 44 0"
W_playerstart == W_str(CN_PLAYERSTART) \o W_pos \o W_str(<<48, 32, 52, 52, 32, 48>>)

\* path "m.x"
W_model ==
    W_str(CN_MODEL) \o W_str(<<109, 46, 120>>) \o W_pos \o W_NEG \o W_ZERO \o W_ONE
    \o W_ONE \o W_ONE \o W_ONE

\* an unknown classname "door" with a body of one zero word
W_door == W_str(<<100, 111, 111, 114>>) \o W_ZERO

\* a light whose color string is "07 8  9"
W_light_spaced == W_str(CN_LIGHT) \o W_pos \o W_ONE \o W_str(<<48, 55, 32, 56, 32, 32, 57>>) \o W_NEG

\* a light whose color string is "1 x 3"
W_light_word == W_str(CN_LIGHT) \o W_pos \o W_ONE \o W_str(<<49, 32, 120, 32, 51>>) \o W_NEG

WireObjects == {W_object_empty, W_object_full}

WireCollisions == {W_collision}

WireTriggers == {W_trigger}

WireKnownPoints == {W_screen, W_waypoint, W_light, W_spotlight, W_soundemitter,
                    W_playerstart, W_model}

WirePoints == WireKnownPoints \cup {W_door, W_light_spaced, W_light_word}

\* signature, counted sections (the trigger section only with `section`), "EOF"
Frame(sig, objs, cols, section, trigs, pts) ==
    W_str(sig) \o W_u32(Len(objs)) \o Flat(objs) \o W_u32(Len(cols)) \o Flat(cols)
    \o (IF section THEN W_u32(Len(trigs)) \o Flat(trigs) ELSE <<>>)
    \o W_u32(Len(pts)) \o Flat(pts) \o W_str(STR_EOF)

\* how many objects, collisions, triggers and points a file holds
WireShapes ==
    {q \in (0..MaxWireItems) \X (0..MaxWireItems) \X (0..MaxWireItems) \X (0..MaxWireItems) :
        q[1] + q[2] + q[3] + q[4] <= MaxWireItems}

\* files with one of the two signatures and every choice of records: the
\* trigger section is there under "RoomMesh.HasTriggerBox" and, whatever the
\* signature, when the file holds a trigger
GoodSignatureFiles ==
    UNION {
        {Frame(sig, o, c, sig = SIG_HASTRIGGERBOX \/ q[3] > 0, t, p) :
            sig \in {SIG_ROOMMESH, SIG_HASTRIGGERBOX},
            o \in [1..q[1] -> WireObjects], c \in [1..q[2] -> WireCollisions],
            t \in [1..q[3] -> WireTriggers], p \in [1..q[4] -> WirePoints]}
        : q \in WireShapes}

\* "RoomMesh2", "roommesh", "", "RoomMesh.HasTriggerBo", and a byte that is not ASCII
BadSignatures ==
    {SIG_ROOMMESH \o <<50>>, <<114, 111, 111, 109, 109, 101, 115, 104>>, <<>>,
     SubSeq(SIG_HASTRIGGERBOX, 1, Len(SIG_HASTRIGGERBOX) - 1), <<82, 200>>}

BadSignatureFiles ==
    {Frame(sig, <<>>, <<>>, FALSE, <<>>, p) :
        sig \in BadSignatures, p \in {<<>>, <<W_waypoint>>}}

InputFiles == GoodSignatureFiles \cup BadSignatureFiles \cup {<<>>}

(***************************************************************************)
(* RoomMesh.write_info: the text report.  A line is the tabs it begins     *)
(* with, its label, and the value the f-string formats into it with the    *)
(* kind of that value: an int, a str, a number read from the file, a       *)
(* tuple, the index and name of a header, or an object.                    *)
(***************************************************************************)
Line(tabs, label, kind, value) ==
    [tabs |-> tabs, label |-> label, kind |-> kind, value |-> value]

\* file.write("\n")
Blank == Line(0, "", "none", <<>>)

\* f"{x}" for an instance of a class that defines neither __str__ nor
\* __repr__: the name of the class and an address, none of the fields
ObjectRepr(class) == class

Coordinate3_pos(self) == <<self.x, self.y, self.z>>

UV_pos(self) == <<self.u, self.v>>

Color_rgb(self) == <<self.r, self.g, self.b>>

Angle_angle(self) == <<self.pitch, self.yaw, self.roll>>

Scale_scale(self) == <<self.x_scale, self.y_scale, self.z_scale>>

Triangle_indices(self) == <<self.index_1, self.index_2, self.index_3>>

info_textures(obj) ==
    Flat([i \in 1..Len(obj.textures) |->
            <<Line(1, "Texture ID", "int", obj.textures[i].layer_ID),
              Line(1, "Texture name", "str", obj.textures[i].filename)>>])

info_object_vertices(obj) ==
    Flat([i \in 1..Len(obj.vertices) |->
            <<Line(1, "Vertex", "int", i - 1),
              Line(2, "Pos", "tuple", Coordinate3_pos(obj.vertices[i].pos)),
              Line(2, "Diffuse UV", "tuple", UV_pos(obj.vertices[i].uv_1)),
              Line(2, "Lightmap UV", "tuple", UV_pos(obj.vertices[i].uv_2)),
              Line(2, "Color", "tuple", Color_rgb(obj.vertices[i].color))>>])

info_triangles(tabs, triangles) ==
    Flat([i \in 1..Len(triangles) |->
            <<Line(tabs, "Triangle", "int", i - 1),
              Line(tabs + 1, "Vertex indices", "tuple", Triangle_indices(triangles[i]))>>])

info_objects(self) ==
    Flat([i \in 1..Len(self.objects) |->
            <<Line(0, "Object", "int", i - 1)>> \o info_textures(self.objects[i])
            \o <<Blank, Line(1, "Vertex count", "int", Len(self.objects[i].vertices))>>
            \o info_object_vertices(self.objects[i])
            \o <<Blank, Line(1, "Triangle count", "int", Len(self.objects[i].triangles))>>
            \o info_triangles(1, self.objects[i].triangles) \o <<Blank>>])

\* the lines of the collisions of the room (tabs = 0) and of a trigger (tabs = 1)
info_collisions(tabs, collisions) ==
    Flat([i \in 1..Len(collisions) |->
            <<Line(tabs, "Collision", "int", i - 1),
              Line(tabs + 1, "Vertex count", "int", Len(collisions[i].vertices))>>
            \o Flat([j \in 1..Len(collisions[i].vertices) |->
                       <<Line(tabs + 1, "Vertex", "int", j - 1),
                         Line(tabs + 2, "Position", "tuple", Coordinate3_pos(collisions[i].vertices[j]))>>])
            \o <<Blank, Line(tabs + 1, "Triangle count", "int", Len(collisions[i].triangles))>>
            \o info_triangles(tabs + 1, collisions[i].triangles) \o <<Blank>>])

info_triggers(self) ==
    Flat([i \in 1..Len(self.triggers) |->
            <<Line(0, "Trigger", "header", <<i - 1, self.triggers[i].name>>)>>
            \o info_collisions(1, self.triggers[i].collisions)])

\* the isinstance tests: there is none for PlayerStart, and point.pos is a
\* Coordinate3, formatted as an object
info_point(point) ==
    CASE point.classname = CN_SCREEN ->
           <<Line(1, "Position", "object", ObjectRepr("Coordinate3")), Line(1, "Image", "str", point.path)>>
      [] point.classname = CN_WAYPOINT ->
           <<Line(1, "Position", "object", ObjectRepr("Coordinate3"))>>
      [] point.classname = CN_LIGHT ->
           <<Line(1, "Position", "object", ObjectRepr("Coordinate3")),
             Line(1, "Intensity", "number", point.intensity), Line(1, "Range", "number", point.range),
             Line(1, "Color", "tuple", Color_rgb(point.color))>>
      [] point.classname = CN_SPOTLIGHT ->
           <<Line(1, "Position", "object", ObjectRepr("Coordinate3")),
             Line(1, "Intensity", "number", point.intensity), Line(1, "Range", "number", point.range),
             Line(1, "Color", "tuple", Color_rgb(point.color)),
             Line(1, "Inner angle", "number", point.inner_angle),
             Line(1, "Outer angle", "number", point.outer_angle),
             Line(1, "Rotation", "tuple", Angle_angle(point.angle))>>
      [] point.classname = CN_SOUNDEMITTER ->
           <<Line(1, "Position", "object", ObjectRepr("Coordinate3")),
             Line(1, "Range", "number", point.range), Line(1, "Sound ID", "number", point.sound)>>
      [] point.classname = CN_MODEL ->
           <<Line(1, "Position", "object", ObjectRepr("Coordinate3")), Line(1, "Model", "str", point.path),
             Line(1, "Rotation", "tuple", Angle_angle(point.angle)),
             Line(1, "Scale", "tuple", Scale_scale(point.scale))>>
      [] OTHER -> <<>>

info_points(self) ==
    Flat([i \in 1..Len(self.points) |->
            <<Line(0, "Point", "header", <<i - 1, self.points[i].classname>>)>>
            \o info_point(self.points[i])])

RoomMesh_write_info(self) ==
    <<Line(0, "File signature", "str", self.signature), Blank,
      Line(0, "Object count", "int", Len(self.objects))>> \o info_objects(self)
    \o <<Line(0, "Collision count", "int", Len(self.collisions))>> \o info_collisions(0, self.collisions)
    \o <<Line(0, "Trigger count", "int", Len(self.triggers))>> \o info_triggers(self)
    \o <<Line(0, "Point count", "int", Len(self.points))>> \o info_points(self)

(***************************************************************************)
(* What the exporter puts into a RoomMesh (roommesh_export.py builds the   *)
(* elements and appends them to the lists of the room).                    *)
(***************************************************************************)
\* 1.0, -2.5, 44.5
X_ONE == Float(0, 127, 0)

X_NEG == Float(1, 128, 2097152)

X_HALF == Float(0, 132, 3276800)

X_pos == [x |-> X_ONE, y |-> X_NEG, z |-> Float(0, 0, 0)]

X_vertex == [pos |-> X_pos, uv_1 |-> [u |-> X_ONE, v |-> Float(0, 0, 0)],
             uv_2 |-> UV_init, color |-> [r |-> 255, g |-> 128, b |-> 0]]

X_triangle == [index_1 |-> U32(0), index_2 |-> U32(1), index_3 |-> U32(2)]

\* Texture(1, "a.jpg"), Texture(0, "anything"), Texture(2, "l.png")
X_diffuse == Texture_init(1, <<97, 46, 106, 112, 103>>)

X_hidden == Texture_init(0, <<97, 110, 121, 116, 104, 105, 110, 103>>)

X_lightmap == Texture_init(2, <<108, 46, 112, 110, 103>>)

\* an object without texture, one with a diffuse texture only, one with two
ExportObjects ==
    {Object_init,
     [textures |-> <<X_diffuse>>, vertices |-> <<X_vertex>>, triangles |-> <<X_triangle>>],
     [textures |-> <<X_hidden, X_lightmap>>, vertices |-> <<>>, triangles |-> <<>>]}

ExportCollisions == {[vertices |-> <<X_pos>>, triangles |-> <<X_triangle>>]}

\* a trigger "t1" of one collision, and an unnamed trigger without collision
ExportTriggers ==
    {[collisions |-> <<Collision_init>>, name |-> <<116, 49>>], TriggerBox_init}

X_color == [r |-> 255, g |-> 128, b |-> 0]

X_angle == [pitch |-> PyInt(90), yaw |-> PyInt(0), roll |-> PyInt(0 - 45)]

(***************************************************************************)
(* roommesh_export.py: the arithmetic of the conversions.  A float is      *)
(* sig * 2^(exp - 150), sig = 2^23 + man for exp > 0 and sig = man at      *)
(* exp = 0.                                                                *)
(***************************************************************************)
Significand(x) == IF x.exp = 0 THEN x.man ELSE 8388608 + x.man

Exponent(x) == IF x.exp = 0 THEN 1 ELSE x.exp

RECURSIVE BitLength(_)
BitLength(p) == IF p = 0 THEN 0 ELSE 1 + BitLength(p \div 2)

\* p with its last k bits dropped, to the nearest, a tie to the even one
ShiftRound(p, k) ==
    IF k <= 0 THEN p * 2 ^ (0 - k)
    ELSE LET q == p \div 2 ^ k
             r == p % 2 ^ k
             half == 2 ^ (k - 1)
         IN  IF r > half \/ (r = half /\ q % 2 = 1) THEN q + 1 ELSE q

\* the float nearest to p * 2^(e - 150), p > 0
NearestFloat(sign, p, e) ==
    LET k == IF e + BitLength(p) - 24 >= 1 THEN BitLength(p) - 24 ELSE 1 - e
        q == ShiftRound(p, k)
        E == IF q >= 16777216 THEN e + k + 1 ELSE e + k
        m == IF q >= 16777216 THEN 8388608 ELSE q
    IN  IF E >= 255 THEN Float(sign, 255, 0)
        ELSE IF m < 8388608 THEN Float(sign, 0, m)
        ELSE Float(sign, E, m - 8388608)

\* x * 160.0
times_160(x) ==
    IF x.exp = 255 \/ Significand(x) = 0 THEN x
    ELSE NearestFloat(x.sign, Significand(x) * 5, Exponent(x) + 5)

\* x / 50: the quotient by 25 carries two more bits and a bit that tells
\* whether anything was left
over_50(x) ==
    IF x.exp = 255 \/ Significand(x) = 0 THEN x
    ELSE NearestFloat(x.sign,
                      2 * ((Significand(x) * 64) \div 25)
                        + (IF (Significand(x) * 64) % 25 = 0 THEN 0 ELSE 1),
                      Exponent(x) - 8)

\* int(x * 255) for a float below 4096.0: the product is exact, int() drops
\* the fraction
int_times_255(x) ==
    LET sig == Significand(x)
        k == 150 - Exponent(x) - 12
        n == IF k > 24 THEN 0
             ELSE (255 * (sig \div 4096) + (255 * (sig % 4096)) \div 4096) \div 2 ^ k
    IN  IF x.sign = 1 THEN 0 - n ELSE n

\* a * b where b is 0.0 or a power of two
times_pow2(a, b) ==
    IF Significand(a) = 0 \/ Significand(b) = 0
    THEN Float((a.sign + b.sign) % 2, 0, 0)
    ELSE NearestFloat((a.sign + b.sign) % 2, Significand(a), Exponent(a) + b.exp - 127)

\* x > 0.0
positive(x) == x.sign = 0 /\ Significand(x) > 0 /\ ~(x.exp = 255 /\ x.man # 0)

\* transform_pos(obj): obj.matrix_world.translation * 160.0
transform_pos(obj) ==
    [x |-> times_160(obj.translation.x), y |-> times_160(obj.translation.y),
     z |-> times_160(obj.translation.z)]

normalize_color(r, g, b) ==
    [r |-> int_times_255(r), g |-> int_times_255(g), b |-> int_times_255(b)]

\* outer_angle is obj.data.spot_size and inner_angle is a product: floats
convert_spotlight(obj) ==
    [Spotlight_init EXCEPT
        !.pos = transform_pos(obj),
        !.range = IF obj.use_custom_distance THEN obj.cutoff_distance ELSE @,
        !.color = normalize_color(obj.color[1], obj.color[2], obj.color[3]),
        !.intensity = over_50(obj.energy),
        !.outer_angle = obj.spot_size,
        !.inner_angle = times_pow2(IF positive(obj.spot_size) THEN obj.spot_size
                                   ELSE X_ONE, obj.spot_blend)]

\* a Blender light: at the origin or at (1.0, -2.5, 0.0); white or orange
\* (1.0, 0.5, 0.0); of 0, 10, 50 or 1000 W; a cone of 45 or 180 degrees
\* (pi/4, pi), blended by 0.0, 0.5 or 1.0
BlenderLights ==
    {[translation |-> t, use_custom_distance |-> u, cutoff_distance |-> Float(0, 132, 2097152),
      color |-> c, energy |-> e, spot_size |-> s, spot_blend |-> b] :
        t \in {Coordinate3_init, X_pos}, u \in BOOLEAN,
        c \in {<<X_ONE, X_ONE, X_ONE>>, <<X_ONE, Float(0, 126, 0), Float(0, 0, 0)>>},
        e \in {Float(0, 0, 0), Float(0, 130, 2097152), Float(0, 132, 4718592),
               Float(0, 136, 7995392)},
        s \in {Float(0, 126, 4788187), Float(0, 128, 4788187)},
        b \in {Float(0, 0, 0), Float(0, 126, 0), X_ONE}}

\* the default spot light of Blender: 1000 W, 45 degrees
X_spot ==
    [translation |-> X_pos, use_custom_distance |-> FALSE,
     cutoff_distance |-> Float(0, 132, 2097152), color |-> <<X_ONE, X_ONE, X_ONE>>,
     energy |-> Float(0, 136, 7995392), spot_size |-> Float(0, 126, 4788187),
     spot_blend |-> Float(0, 126, 0)]

(***************************************************************************)
(* roommesh_export.py: collisions and trigger boxes.  A mesh object is     *)
(* [trigger_name, vertices (vertex.co of each vertex), triangles (the      *)
(* vertex indices of each loop triangle)]; its matrix_world is the         *)
(* identity, so that matrix_world @ Vector(local) is local.                *)
(***************************************************************************)
\* transform_pos(obj, local)
transform_pos_local(obj, local) ==
    [x |-> times_160(local.x), y |-> times_160(local.y), z |-> times_160(local.z)]

convert_collision(obj) ==
    [vertices |-> [i \in 1..Len(obj.vertices) |-> transform_pos_local(obj, obj.vertices[i])],
     triangles |-> [i \in 1..Len(obj.triangles) |->
                       [index_1 |-> U32(obj.triangles[i][1]),
                        index_2 |-> U32(obj.triangles[i][2]),
                        index_3 |-> U32(obj.triangles[i][3])]]]

\* for trigger in room.triggers: the place of the first trigger of that
\* name, 0 when the loop ends without one
RECURSIVE find_trigger(_, _, _)
find_trigger(triggers, trigger_name, i) ==
    IF i > Len(triggers) THEN 0
    ELSE IF trigger_name = triggers[i].name THEN i
    ELSE find_trigger(triggers, trigger_name, i + 1)

\* convert_trigger_box as it would be without the search: a new TriggerBox
\* at every call
convert_trigger_box_always_new(room_, obj) ==
    [room_ EXCEPT !.triggers = Append(@, [TriggerBox_init EXCEPT
                                             !.name = obj.trigger_name,
                                             !.collisions = <<convert_collision(obj)>>])]

convert_trigger_box(room_, obj) ==
    LET collision == convert_collision(obj)
        i == find_trigger(room_.triggers, obj.trigger_name, 1)
    IN  IF i # 0
        THEN [room_ EXCEPT !.triggers[i].collisions = Append(@, collision)]
        ELSE [room_ EXCEPT !.triggers = Append(@, [TriggerBox_init EXCEPT
                                                      !.name = obj.trigger_name,
                                                      !.collisions = <<collision>>])]

\* trigger meshes: "t1" or "t2"; no vertex, or a triangle
BlenderTriggers ==
    {[trigger_name |-> n, vertices |-> m.vertices, triangles |-> m.triangles] :
        n \in {<<116, 49>>, <<116, 50>>},
        m \in {[vertices |-> <<>>, triangles |-> <<>>],
               [vertices |-> <<Coordinate3_init, X_pos,
                               [x |-> X_ONE, y |-> X_ONE, z |-> X_NEG]>>,
                triangles |-> <<<<0, 1, 2>>>>]}}

\* one point of each variant, a player start whose angle holds floats, and
\* the spotlight convert_spotlight makes of the default spot light
ExportPoints ==
    {[Screen_init EXCEPT !.pos = X_pos, !.path = <<97, 46, 106, 112, 103>>],
     [Waypoint_init EXCEPT !.pos = X_pos],
     [Light_init EXCEPT !.pos = X_pos, !.range = X_ONE, !.color = X_color,
                        !.intensity = X_NEG],
     [Spotlight_init EXCEPT !.pos = X_pos, !.range = X_ONE, !.color = X_color,
                            !.intensity = X_NEG, !.angle = X_angle,
                            !.inner_angle = U32(30), !.outer_angle = U32(45)],
     [SoundEmitter_init EXCEPT !.pos = X_pos, !.sound = U32(3), !.range = X_ONE],
     [PlayerStart_init EXCEPT !.pos = X_pos, !.angle = X_angle],
     [PlayerStart_init EXCEPT !.angle = [Angle_init EXCEPT !.pitch = X_HALF]],
     [Model_init EXCEPT !.path = <<109, 46, 120>>, !.pos = X_pos,
                        !.angle = [pitch |-> X_NEG, yaw |-> Float(0, 0, 0), roll |-> X_ONE]],
     convert_spotlight(X_spot)}

(***************************************************************************)
(* Textures and bytes for the calls of Texture.write, Texture.parse and    *)
(* Object.write on their own                                               *)
(***************************************************************************)
UnitTextures ==
    {Texture_init(l, n) : l \in {0, 1, 2, 255, 256},
                          n \in {<<>>, <<97, 46, 106, 112, 103>>, <<97, 110, 121, 116, 104, 105, 110, 103>>}}

UnitTextureBytes ==
    {<<>>, <<0>>, <<0>> \o W_str(<<97, 46, 106, 112, 103>>), <<0, 0, 0>>, <<1>> \o W_str(<<97, 46, 106, 112, 103>>),
     <<2>> \o W_str(<<>>), <<1, 5, 0>>, <<1>> \o W_u32(3) \o <<97>>, <<255, 1, 0, 0, 0, 200>>}

(***************************************************************************)
(* roommesh_properties.py: the three flags of an object and their update   *)
(* callbacks.  Blender stores the value of a property and then calls its   *)
(* update function, also when the value is assigned inside a callback;     *)
(* the nested callback runs to its end before the assignment returns.      *)
(* self.id_data is the object the property group belongs to and is never   *)
(* None for the objects of a scene.                                        *)
(***************************************************************************)
\* the objects of the scene
NumObjects == 2

PropertyGroup_init ==
    [is_collision |-> FALSE, is_trigger |-> FALSE, is_model |-> FALSE,
     id_is_collision |-> "unset", id_is_trigger |-> "unset", id_is_model |-> "unset",
     display_type |-> "TEXTURED", show_in_front |-> FALSE, hide_render |-> FALSE]

\* bool(x) as it is stored in a custom property of the object
Stored(x) == IF x THEN "True" ELSE "False"

\* update_is_collision as it would be if turning collision off left the
\* trigger flag alone
update_is_collision_keep_trigger(self) ==
    LET a == [self EXCEPT !.id_is_collision = Stored(self.is_collision)]
    IN  IF a.is_collision
        THEN LET b == [a EXCEPT !.display_type = "WIRE", !.show_in_front = TRUE,
                                !.hide_render = TRUE]
             IN  IF b.is_model
                 THEN [self |-> [b EXCEPT !.is_model = FALSE], calls |-> <<"update_is_model">>]
                 ELSE [self |-> b, calls |-> <<>>]
        ELSE [self |-> [a EXCEPT !.display_type = "SOLID", !.show_in_front = FALSE,
                                 !.hide_render = FALSE],
              calls |-> <<>>]

\* each update returns the property group it leaves and the callback its
\* assignment to another flag calls
update_is_collision(self) ==
    LET a == [self EXCEPT !.id_is_collision = Stored(self.is_collision)]
    IN  IF a.is_collision
        THEN LET b == [a EXCEPT !.display_type = "WIRE", !.show_in_front = TRUE,
                                !.hide_render = TRUE]
             IN  IF b.is_model
                 THEN [self |-> [b EXCEPT !.is_model = FALSE], calls |-> <<"update_is_model">>]
                 ELSE [self |-> b, calls |-> <<>>]
        ELSE LET b == [a EXCEPT !.display_type = "SOLID", !.show_in_front = FALSE,
                                !.hide_render = FALSE]
             IN  IF b.is_trigger
                 THEN [self |-> [b EXCEPT !.is_trigger = FALSE],
                       calls |-> <<"update_is_trigger">>]
                 ELSE [self |-> b, calls |-> <<>>]

update_is_trigger(self) ==
    LET a == [self EXCEPT !.id_is_trigger = Stored(self.is_trigger)]
    IN  IF a.is_trigger /\ ~a.is_collision
        THEN [self |-> [a EXCEPT !.is_trigger = FALSE], calls |-> <<"update_is_trigger">>]
        ELSE [self |-> a, calls |-> <<>>]

\* update_is_model as it would be if turning model on left collision alone
update_is_model_keep_collision(self) ==
    [self |-> [self EXCEPT !.id_is_model = Stored(self.is_model)], calls |-> <<>>]

update_is_model(self) ==
    LET a == [self EXCEPT !.id_is_model = Stored(self.is_model)]
    IN  IF a.is_model /\ a.is_collision
        THEN [self |-> [a EXCEPT !.is_collision = FALSE],
              calls |-> <<"update_is_collision">>]
        ELSE [self |-> a, calls |-> <<>>]

\* no checkbox was clicked yet
NoClick == [obj |-> 0, prop |-> "none", value |-> FALSE, before |-> PropertyGroup_init]

(***************************************************************************)
(* State                                                                   *)
(***************************************************************************)
VARIABLES
    pc,      \* where the run is: idle, parsed, failed, building, signed, ...
    room,    \* the RoomMesh instance the importer parses into / the exporter fills
    rmesh,   \* the file object RoomMesh.parse reads (import_roommesh: rmesh)
    file,    \* the file object RoomMesh.write writes (export_roommesh: file)
    copy,    \* a second, fresh RoomMesh instance, parsed from the written bytes
             \* or from a truncated copy of the input
    rcopy,   \* the file object `copy` is parsed from
    unit,    \* a call of one method or function on its own:
             \* [op, self (before), f (the file after), v (self after)], then
             \* rf and rv (the file and the value of a read of the bytes in f)
             \* and wf (the file rv was written to again); while the exporter
             \* collects a scene, self is the list of the trigger meshes
             \* convert_trigger_box was called with
    ui       \* the object panel of the add-on: [props, stack, click]

vars == <<pc, room, rmesh, file, copy, rcopy, unit, ui>>

NoUnit == [op |-> "none", self |-> <<>>, f |-> OpenWrite, v |-> <<>>]

Init ==
    /\ pc = "idle"
    /\ room = RoomMesh_init
    /\ rmesh = OpenRead(<<>>)
    /\ file = OpenWrite
    /\ copy = RoomMesh_init
    /\ rcopy = OpenRead(<<>>)
    /\ unit = NoUnit
    /\ ui = [props |-> [o \in 1..NumObjects |-> PropertyGroup_init], stack |-> <<>>,
             click |-> NoClick]

\* the elements of a room: a trigger counts for each of its collisions, and
\* for one when it has none
RECURSIVE TriggerItems(_, _)
TriggerItems(triggers, i) ==
    IF i > Len(triggers) THEN 0
    ELSE (IF triggers[i].collisions = <<>> THEN 1 ELSE Len(triggers[i].collisions))
         + TriggerItems(triggers, i + 1)

Items(r) == Len(r.objects) + Len(r.collisions) + TriggerItems(r.triggers, 1) + Len(r.points)

(***************************************************************************)
(* Import: room = RoomMesh(); room.parse(rmesh)                            *)
(***************************************************************************)
Parse(bytes) ==
    /\ pc = "idle"
    /\ LET r == RoomMesh_parse(RoomMesh_init, OpenRead(bytes))
       IN  /\ room' = r.v
           /\ rmesh' = r.f
           /\ pc' = IF Failed(r.f) THEN "failed" ELSE "parsed"
    /\ UNCHANGED <<file, copy, rcopy, unit, ui>>

(***************************************************************************)
(* Export: the elements are appended, the signature is set, the room is    *)
(* written.                                                                *)
(***************************************************************************)
AppendObject(o) ==
    /\ pc \in {"idle", "building", "custom"}
    /\ Items(room) < MaxItems
    /\ room' = [room EXCEPT !.objects = Append(@, o)]
    /\ pc' = IF pc = "custom" THEN "custom" ELSE "building"
    /\ UNCHANGED <<rmesh, file, copy, rcopy, unit, ui>>

AppendCollision(c) ==
    /\ pc \in {"idle", "building", "custom"}
    /\ Items(room) < MaxItems
    /\ room' = [room EXCEPT !.collisions = Append(@, c)]
    /\ pc' = IF pc = "custom" THEN "custom" ELSE "building"
    /\ UNCHANGED <<rmesh, file, copy, rcopy, unit, ui>>

\* a caller of the module appends a TriggerBox of its own making
AppendTrigger(t) ==
    /\ pc \in {"idle", "building", "custom"}
    /\ Items(room) < MaxItems
    /\ room' = [room EXCEPT !.triggers = Append(@, t)]
    /\ pc' = "custom"
    /\ UNCHANGED <<rmesh, file, copy, rcopy, unit, ui>>

\* the trigger meshes handed to convert_trigger_box so far, in call order
Calls == IF unit.op = "convert_trigger_box" THEN unit.self ELSE <<>>

\* export_roommesh meets a mesh with is_collision and is_trigger:
\* convert_trigger_box(room, obj)
ConvertTriggerBox(obj) ==
    /\ pc \in {"idle", "building"}
    /\ \/ Items(room) < MaxItems
       \/ Items(room) = Len(Calls) /\ Len(Calls) < MaxTriggerObjects
    /\ room' = convert_trigger_box(room, obj)
    /\ unit' = [op |-> "convert_trigger_box", self |-> Append(Calls, obj),
                f |-> OpenWrite, v |-> <<>>]
    /\ pc' = "building"
    /\ UNCHANGED <<rmesh, file, copy, rcopy, ui>>

AppendPoint(p) ==
    /\ pc \in {"idle", "building", "custom"}
    /\ Items(room) < MaxItems
    /\ room' = [room EXCEPT !.points = Append(@, p)]
    /\ pc' = IF pc = "custom" THEN "custom" ELSE "building"
    /\ UNCHANGED <<rmesh, file, copy, rcopy, unit, ui>>

\* the signature as it would be if the exporter never announced a trigger
export_signature_plain(self) == SIG_ROOMMESH

\* if len(room.triggers) > 0: "RoomMesh.HasTriggerBox", else: "RoomMesh"
export_signature(self) ==
    IF Len(self.triggers) > 0 THEN SIG_HASTRIGGERBOX ELSE SIG_ROOMMESH

\* the signature is set from the trigger list, after the last element
SetSignature ==
    /\ pc \in {"idle", "building"}
    /\ room' = [room EXCEPT !.signature = export_signature(room)]
    /\ pc' = "signed"
    /\ UNCHANGED <<rmesh, file, copy, rcopy, unit, ui>>

\* a caller of the module assigns room.signature itself, either literal,
\* whatever the trigger list holds
AssignSignature(sig) ==
    /\ pc \in {"idle", "building", "custom"}
    /\ room' = [room EXCEPT !.signature = sig]
    /\ pc' = "assigned"
    /\ UNCHANGED <<rmesh, file, copy, rcopy, unit, ui>>

\* room.write(file) on a fresh sink, for a parsed room and for a filled one
Write ==
    /\ pc \in {"parsed", "signed", "assigned"}
    /\ LET w == RoomMesh_write(room, OpenWrite)
       IN  /\ room' = w.v
           /\ file' = w.f
           /\ pc' = IF Failed(w.f) THEN "unwritten"
                    ELSE IF pc = "parsed" THEN "rewritten"
                    ELSE IF pc = "signed" THEN "exported" ELSE "direct"
    /\ UNCHANGED <<rmesh, copy, rcopy, unit, ui>>

\* room.write(file) once more, on another fresh sink
WriteAgain ==
    /\ pc \in {"rewritten", "exported", "direct"}
    /\ LET w == RoomMesh_write(room, OpenWrite)
       IN  /\ room' = w.v
           /\ unit' = [op |-> "RoomMesh.write", self |-> room, f |-> w.f, v |-> w.v]
    /\ pc' = "twice"
    /\ UNCHANGED <<rmesh, file, copy, rcopy, ui>>

\* the written bytes are parsed into a fresh RoomMesh
Reparse ==
    /\ pc \in {"rewritten", "exported"}
    /\ LET r == RoomMesh_parse(RoomMesh_init, OpenRead(file.data))
       IN  /\ copy' = r.v
           /\ rcopy' = r.f
    /\ pc' = IF pc = "rewritten" THEN "reparsed" ELSE "reimported"
    /\ UNCHANGED <<room, rmesh, file, unit, ui>>

\* the first k bytes of a file that parsed, k less than what parse consumed,
\* are parsed into a fresh RoomMesh
ParseTruncated(k) ==
    /\ pc = "parsed"
    /\ rmesh.pos <= MaxTruncLen
    /\ k < rmesh.pos
    /\ LET r == RoomMesh_parse(RoomMesh_init, OpenRead(SubSeq(rmesh.data, 1, k)))
       IN  /\ copy' = r.v
           /\ rcopy' = r.f
    /\ pc' = "truncated"
    /\ UNCHANGED <<room, rmesh, file, unit, ui>>

\* main: room.parse(file), then room.write_info(file) on 'info.txt'
WriteInfo ==
    /\ pc = "parsed"
    /\ file' = [OpenWrite EXCEPT !.data = RoomMesh_write_info(room)]
    /\ pc' = "reported"
    /\ UNCHANGED <<room, rmesh, copy, rcopy, unit, ui>>

(***************************************************************************)
(* What may follow the bytes a parse consumed: nothing, a byte that is not *)
(* ASCII, or the count and the classname of one more point                 *)
(***************************************************************************)
UnitTails == {<<>>, <<255>>, W_u32(1) \o W_str(CN_WAYPOINT)}

\* the bytes a successful parse consumed, followed by other bytes than in the
\* file, are parsed into a fresh RoomMesh
ParseWithTail(tail) ==
    /\ pc = "parsed"
    /\ LET r == RoomMesh_parse(RoomMesh_init,
                               OpenRead(SubSeq(rmesh.data, 1, rmesh.pos) \o tail))
       IN  /\ copy' = r.v
           /\ rcopy' = r.f
    /\ pc' = "retailed"
    /\ UNCHANGED <<room, rmesh, file, unit, ui>>

(***************************************************************************)
(* Single calls                                                            *)
(***************************************************************************)
TextureWrite(t) ==
    /\ pc = "idle"
    /\ unit' = [op |-> "Texture.write", self |-> t,
                f |-> Texture_write(t, OpenWrite), v |-> t]
    /\ pc' = "unit"
    /\ UNCHANGED <<room, rmesh, file, copy, rcopy, ui>>

TextureParse(t, bytes) ==
    /\ pc = "idle"
    /\ LET r == Texture_parse(t, OpenRead(bytes))
       IN  unit' = [op |-> "Texture.parse", self |-> t, f |-> r.f, v |-> r.v]
    /\ pc' = "unit"
    /\ UNCHANGED <<room, rmesh, file, copy, rcopy, ui>>

ObjectWrite(o) ==
    /\ pc = "idle"
    /\ LET w == Object_write(o, OpenWrite)
       IN  unit' = [op |-> "Object.write", self |-> o, f |-> w.f, v |-> w.v]
    /\ pc' = "unit"
    /\ UNCHANGED <<room, rmesh, file, copy, rcopy, ui>>

(***************************************************************************)
(* Color strings for the calls of Color.parse_as_string on its own:        *)
(* "255 128 0", "10 20", "", "7", "1 2 3 4", "1 x 3", "10 2x",             *)
(* " 1  2 3 ", "-1 +2 0_3", "1 2 3 x", "4 5 6 7 8"                         *)
(***************************************************************************)
UnitColorStrings ==
    {<<50, 53, 53, 32, 49, 50, 56, 32, 48>>, <<49, 48, 32, 50, 48>>, <<>>, <<55>>, <<49, 32, 50, 32, 51, 32, 52>>, <<49, 32, 120, 32, 51>>, <<49, 48, 32, 50, 120>>,
     <<32, 49, 32, 32, 50, 32, 51, 32>>, <<45, 49, 32, 43, 50, 32, 48, 95, 51>>, <<49, 32, 50, 32, 51, 32, 120>>, <<52, 32, 53, 32, 54, 32, 55, 32, 56>>}

\* color.parse_as_string(file) on a file holding the length-prefixed string
ColorParseString(c, s) ==
    /\ pc = "idle"
    /\ LET r == Color_parse_as_string(c, OpenRead(W_str(s)))
       IN  unit' = [op |-> "Color.parse_as_string", self |-> c, f |-> r.f, v |-> r.v]
    /\ pc' = "unit"
    /\ UNCHANGED <<room, rmesh, file, copy, rcopy, ui>>

(***************************************************************************)
(* Angles for the calls of Angle.write_as_string on its own: the pitch is  *)
(* 44.5, 45.5, -0.5, -1.5, 0.75, 0.25, 2.5, 1e9, the least denormal, an    *)
(* infinity, a NaN, or the int 90; the yaw is 0.0 and the roll -2.5.       *)
(***************************************************************************)
UnitPitches ==
    {X_HALF, Float(0, 132, 3538944), Float(1, 126, 0), Float(1, 127, 4194304),
     Float(0, 126, 4194304), Float(0, 125, 0), Float(0, 128, 2097152),
     Float(0, 156, 7236392), Float(0, 0, 1), Float(0, 255, 0), Float(0, 255, 4194304),
     PyInt(90)}

UnitAngles ==
    {[pitch |-> p, yaw |-> Float(0, 0, 0), roll |-> X_NEG] : p \in UnitPitches}
    \cup {X_angle}

\* angle.write_as_string(file) on a fresh sink
AngleWriteString(a) ==
    /\ pc = "idle"
    /\ unit' = [op |-> "Angle.write_as_string", self |-> a,
                f |-> Angle_write_as_string(a, OpenWrite), v |-> a]
    /\ pc' = "unit"
    /\ UNCHANGED <<room, rmesh, file, copy, rcopy, ui>>

\* a fresh Angle parses the string that was written
AngleParseString ==
    /\ pc = "unit"
    /\ unit.op = "Angle.write_as_string"
    /\ ~Failed(unit.f)
    /\ LET r == Angle_parse_as_string(Angle_init, OpenRead(unit.f.data))
       IN  unit' = [op |-> unit.op, self |-> unit.self, f |-> unit.f, v |-> unit.v,
                    rf |-> r.f, rv |-> r.v]
    /\ pc' = "unit_read"
    /\ UNCHANGED <<room, rmesh, file, copy, rcopy, ui>>

\* the Angle that was parsed is written again
AngleRewriteString ==
    /\ pc = "unit_read"
    /\ unit.op = "Angle.write_as_string"
    /\ unit' = [op |-> unit.op, self |-> unit.self, f |-> unit.f, v |-> unit.v,
                rf |-> unit.rf, rv |-> unit.rv,
                wf |-> Angle_write_as_string(unit.rv, OpenWrite)]
    /\ pc' = "unit_rewritten"
    /\ UNCHANGED <<room, rmesh, file, copy, rcopy, ui>>

(***************************************************************************)
(* Positions for the calls of Coordinate3.write and Coordinate3.parse on   *)
(* their own: each field is 0.0, -0.0, 1.0, -2.5, the greatest finite      *)
(* value or the least denormal.                                            *)
(***************************************************************************)
UnitFloats ==
    {Float(0, 0, 0), Float(1, 0, 0), X_ONE, X_NEG, Float(0, 254, 8388607), Float(0, 0, 1)}

UnitPositions == {[x |-> a, y |-> b, z |-> c] : a \in UnitFloats, b \in UnitFloats, c \in UnitFloats}

\* pos.write(file) on a fresh sink
Coordinate3Write(p) ==
    /\ pc = "idle"
    /\ unit' = [op |-> "Coordinate3.write", self |-> p,
                f |-> Coordinate3_write(p, OpenWrite), v |-> p]
    /\ pc' = "unit"
    /\ UNCHANGED <<room, rmesh, file, copy, rcopy, ui>>

\* a fresh Coordinate3 parses the bytes that were written
Coordinate3Parse ==
    /\ pc = "unit"
    /\ unit.op = "Coordinate3.write"
    /\ LET r == Coordinate3_parse(Coordinate3_init, OpenRead(unit.f.data))
       IN  unit' = [op |-> unit.op, self |-> unit.self, f |-> unit.f, v |-> unit.v,
                    rf |-> r.f, rv |-> r.v]
    /\ pc' = "unit_read"
    /\ UNCHANGED <<room, rmesh, file, copy, rcopy, ui>>

(***************************************************************************)
(* Integers for the calls of write_integer and read_integer on their own:  *)
(* 0, 1, 255, 256, 65535, 65536, 2^31 - 1, 2^31, 2^32 - 1 and, out of      *)
(* range, -1, -65536, -2^31, 2^32, 2^32 + 1.  An int n is held as          *)
(* [hi |-> n \div 2^16, lo |-> n % 2^16].                                  *)
(***************************************************************************)
UnitIntegers ==
    {U32(0), U32(1), U32(255), U32(256), U32(65535), U32(65536),
     [hi |-> 32767, lo |-> 65535], [hi |-> 32768, lo |-> 0], [hi |-> 65535, lo |-> 65535],
     [hi |-> 0 - 1, lo |-> 65535], [hi |-> 0 - 1, lo |-> 0], [hi |-> 0 - 32768, lo |-> 0],
     [hi |-> 65536, lo |-> 0], [hi |-> 65536, lo |-> 1]}

\* write_integer(file, value) on a fresh sink
IntegerWrite(value) ==
    /\ pc = "idle"
    /\ unit' = [op |-> "write_integer", self |-> value,
                f |-> write_integer(OpenWrite, value, "integer data"), v |-> value]
    /\ pc' = "unit"
    /\ UNCHANGED <<room, rmesh, file, copy, rcopy, ui>>

\* read_integer(file) on the bytes that were written
IntegerRead ==
    /\ pc = "unit"
    /\ unit.op = "write_integer"
    /\ ~Failed(unit.f)
    /\ LET r == read_integer(OpenRead(unit.f.data), "integer data")
       IN  unit' = [op |-> unit.op, self |-> unit.self, f |-> unit.f, v |-> unit.v,
                    rf |-> r.f, rv |-> r.v]
    /\ pc' = "unit_read"
    /\ UNCHANGED <<room, rmesh, file, copy, rcopy, ui>>

(***************************************************************************)
(* Strings for the calls of write_string and read_string on their own:     *)
(* the empty string, "a", "EOF", "a b", a NUL, a DEL, "RoomMesh", a line   *)
(* break, "0", and two strings that are not ASCII.                         *)
(***************************************************************************)
UnitStrings ==
    {<<>>, <<97>>, <<69, 79, 70>>, <<97, 32, 98>>, <<0>>, <<127>>, <<82, 111, 111, 109, 77, 101, 115, 104>>, <<10>>, <<48>>,
     <<233>>, <<97, 128, 98>>}

\* write_string(file, string) on a fresh sink
StringWrite(s) ==
    /\ pc = "idle"
    /\ unit' = [op |-> "write_string", self |-> s,
                f |-> write_string(OpenWrite, s, "string data"), v |-> s]
    /\ pc' = "unit"
    /\ UNCHANGED <<room, rmesh, file, copy, rcopy, ui>>

\* read_string(file) on the bytes that were written
StringRead ==
    /\ pc = "unit"
    /\ unit.op = "write_string"
    /\ ~Failed(unit.f)
    /\ LET r == read_string(OpenRead(unit.f.data), "string data")
       IN  unit' = [op |-> unit.op, self |-> unit.self, f |-> unit.f, v |-> unit.v,
                    rf |-> r.f, rv |-> r.v]
    /\ pc' = "unit_read"
    /\ UNCHANGED <<room, rmesh, file, copy, rcopy, ui>>

\* convert_spotlight(obj) and the write of the spotlight on a fresh sink
ConvertSpotlight(obj) ==
    /\ pc = "idle"
    /\ unit' = [op |-> "convert_spotlight", self |-> obj,
                f |-> Spotlight_write(convert_spotlight(obj), OpenWrite),
                v |-> convert_spotlight(obj)]
    /\ pc' = "unit"
    /\ UNCHANGED <<room, rmesh, file, copy, rcopy, ui>>

\* point.write(file) on a fresh sink
PointWrite(p) ==
    /\ pc = "idle"
    /\ unit' = [op |-> "Point.write", self |-> p,
                f |-> Point_write(p, OpenWrite), v |-> p]
    /\ pc' = "unit"
    /\ UNCHANGED <<room, rmesh, file, copy, rcopy, ui>>

\* one turn of the point loop of RoomMesh.parse on the bytes that were
\* written: the classname is read and the match constructs and parses
PointParse ==
    /\ pc = "unit"
    /\ unit.op = "Point.write"
    /\ ~Failed(unit.f)
    /\ LET r == RoomMesh_parse_points(OpenRead(unit.f.data), 1, <<>>)
       IN  unit' = [op |-> unit.op, self |-> unit.self, f |-> unit.f, v |-> unit.v,
                    rf |-> r.f, rv |-> r.v]
    /\ pc' = "unit_read"
    /\ UNCHANGED <<room, rmesh, file, copy, rcopy, ui>>

Next ==
    \/ \E bytes \in InputFiles : Parse(bytes)
    \/ \E o \in ExportObjects : AppendObject(o)
    \/ \E c \in ExportCollisions : AppendCollision(c)
    \/ \E t \in ExportTriggers : AppendTrigger(t)
    \/ \E obj \in BlenderTriggers : ConvertTriggerBox(obj)
    \/ \E p \in ExportPoints : AppendPoint(p)
    \/ SetSignature
    \/ \E sig \in {SIG_ROOMMESH, SIG_HASTRIGGERBOX} : AssignSignature(sig)
    \/ Write
    \/ WriteAgain
    \/ Reparse
    \/ \E k \in 0..MaxTruncLen : ParseTruncated(k)
    \/ WriteInfo
    \/ \E tail \in UnitTails : ParseWithTail(tail)
    \/ \E t \in UnitTextures : TextureWrite(t)
    \/ \E t \in {Texture_default, X_hidden}, bytes \in UnitTextureBytes : TextureParse(t, bytes)
    \/ \E o \in ExportObjects : ObjectWrite(o)
    \/ \E c \in {Color_init, X_color}, s \in UnitColorStrings : ColorParseString(c, s)
    \/ \E a \in UnitAngles : AngleWriteString(a)
    \/ AngleParseString
    \/ AngleRewriteString
    \/ \E p \in UnitPositions : Coordinate3Write(p)
    \/ Coordinate3Parse
    \/ \E value \in UnitIntegers : IntegerWrite(value)
    \/ IntegerRead
    \/ \E p \in ExportPoints : PointWrite(p)
    \/ PointParse
    \/ \E s \in UnitStrings : StringWrite(s)
    \/ StringRead
    \/ \E obj \in BlenderLights : ConvertSpotlight(obj)

Spec == Init /\ [][Next]_vars

(***************************************************************************)
(* The checkboxes of the object panel.  ui.props is the property group of  *)
(* each object, ui.stack the callbacks that are running, the innermost     *)
(* last, and ui.click the last click with the property group before it.    *)
(***************************************************************************)
Main == <<pc, room, rmesh, file, copy, rcopy, unit>>

Idle == ui.stack = <<>>

Frame_(fn, o) == [fn |-> fn, obj |-> o, at |-> "entry"]

\* the user clicks a checkbox: the value is stored, the update is called
ToggleIsCollision(o) ==
    /\ Idle
    /\ ui' = [props |-> [ui.props EXCEPT ![o].is_collision = ~@],
              stack |-> <<Frame_("update_is_collision", o)>>,
              click |-> [obj |-> o, prop |-> "is_collision",
                         value |-> ~ui.props[o].is_collision, before |-> ui.props[o]]]
    /\ UNCHANGED Main

ToggleIsTrigger(o) ==
    /\ Idle
    /\ ui' = [props |-> [ui.props EXCEPT ![o].is_trigger = ~@],
              stack |-> <<Frame_("update_is_trigger", o)>>,
              click |-> [obj |-> o, prop |-> "is_trigger",
                         value |-> ~ui.props[o].is_trigger, before |-> ui.props[o]]]
    /\ UNCHANGED Main

ToggleIsModel(o) ==
    /\ Idle
    /\ ui' = [props |-> [ui.props EXCEPT ![o].is_model = ~@],
              stack |-> <<Frame_("update_is_model", o)>>,
              click |-> [obj |-> o, prop |-> "is_model",
                         value |-> ~ui.props[o].is_model, before |-> ui.props[o]]]
    /\ UNCHANGED Main

\* the innermost callback runs: to its end, or to the assignment that calls
\* the next one
Run(fn, r) ==
    LET top == ui.stack[Len(ui.stack)]
    IN  /\ top.fn = fn
        /\ top.at = "entry"
        /\ ui' = [ui EXCEPT
                    !.props[top.obj] = r.self,
                    !.stack = IF r.calls = <<>> THEN SubSeq(@, 1, Len(@) - 1)
                              ELSE SubSeq(@, 1, Len(@) - 1)
                                   \o <<[top EXCEPT !.at = "called"],
                                        Frame_(r.calls[1], top.obj)>>]

UpdateIsCollision ==
    /\ ~Idle
    /\ Run("update_is_collision",
           update_is_collision(ui.props[ui.stack[Len(ui.stack)].obj]))
    /\ UNCHANGED Main

UpdateIsTrigger ==
    /\ ~Idle
    /\ Run("update_is_trigger", update_is_trigger(ui.props[ui.stack[Len(ui.stack)].obj]))
    /\ UNCHANGED Main

UpdateIsModel ==
    /\ ~Idle
    /\ Run("update_is_model", update_is_model(ui.props[ui.stack[Len(ui.stack)].obj]))
    /\ UNCHANGED Main

\* the callback that was called has ended: the assignment returns, and the
\* calling callback, which has nothing after it, ends too
Return ==
    /\ ~Idle
    /\ ui.stack[Len(ui.stack)].at = "called"
    /\ ui' = [ui EXCEPT !.stack = SubSeq(@, 1, Len(@) - 1)]
    /\ UNCHANGED Main

NextProps ==
    \/ \E o \in 1..NumObjects : ToggleIsCollision(o)
    \/ \E o \in 1..NumObjects : ToggleIsTrigger(o)
    \/ \E o \in 1..NumObjects : ToggleIsModel(o)
    \/ UpdateIsCollision
    \/ UpdateIsTrigger
    \/ UpdateIsModel
    \/ Return

SpecProps == Init /\ [][NextProps]_vars


(***************************************************************************)
(* Observations on the calls a file object has served                      *)
(***************************************************************************)
\* the bytes the i-th call read or wrote
BytesOf(f, i) == SubSeq(f.data, f.log[i].at + 1, f.log[i].at + f.log[i].n)

\* the count a complete 4-byte field holds
WordOf(f, i) ==
    CountOf([hi |-> f.data[f.log[i].at + 3] + 256 * f.data[f.log[i].at + 4],
             lo |-> f.data[f.log[i].at + 1] + 256 * f.data[f.log[i].at + 2]])

\* the calls made for a field, by the label and the kind of the call
CallsFor(f, context, kind) ==
    {i \in 1..Len(f.log) : f.log[i].context = context /\ f.log[i].kind = kind}

Reached(f, context) == \E i \in 1..Len(f.log) : f.log[i].context = context

IsPrefix(s, t) == Len(s) <= Len(t) /\ s = SubSeq(t, 1, Len(s))

\* the file begins with a length-prefixed ASCII string that is all there
HasLeadingString(data) ==
    /\ Len(data) >= 4
    /\ data[3] = 0 /\ data[4] = 0
    /\ Len(data) >= 4 + data[1] + 256 * data[2]
    /\ \A i \in 5..(4 + data[1] + 256 * data[2]) : data[i] <= 127

LeadingString(data) == SubSeq(data, 5, 4 + data[1] + 256 * data[2])

\* a file object RoomMesh.parse has read from
ParseRan(f) == f.log # <<>>

\* room holds what a successful parse of rmesh produced
Imported == pc \in {"parsed", "rewritten", "reparsed", "truncated"}

\* file holds what a successful write of room produced
Written == pc \in {"rewritten", "reparsed", "exported", "reimported"}

\* copy holds what parse made of the written bytes
Reread == pc \in {"reparsed", "reimported"}

(***************************************************************************)
(* C1  Byte-level round trip: for every byte stream that RoomMesh.parse    *)
(* accepts into a fresh RoomMesh, RoomMesh.write of the result emits       *)
(* exactly the bytes parse consumed, followed only by the length-prefixed  *)
(* "EOF".  The code does not do this: see C1_ByteRoundTrip's violation.    *)
(***************************************************************************)
C1_ByteRoundTrip ==
    pc \in {"rewritten", "reparsed"}
        => file.data = SubSeq(rmesh.data, 1, rmesh.pos) \o W_str(STR_EOF)

(***************************************************************************)
(* C2  Document-level round trip: for every RoomMesh a successful parse    *)
(* produced, writing it and parsing the output into a fresh RoomMesh       *)
(* succeeds and gives the same signature, objects, collisions, triggers    *)
(* and points.  The code does not do this for "RoomMesh.HasTriggerBox"     *)
(* with no trigger.                                                        *)
(***************************************************************************)
C2_DocumentRoundTrip ==
    pc = "reparsed" => ~Failed(rcopy) /\ copy = room

(***************************************************************************)
(* C3  Trigger gating round trip: a RoomMesh with signature "RoomMesh"     *)
(* and no trigger is written without a trigger count and parses back with  *)
(* no trigger; a RoomMesh with signature "RoomMesh.HasTriggerBox" and      *)
(* n >= 1 triggers is written with one trigger count, n, and parses back   *)
(* with the same n triggers.                                               *)
(***************************************************************************)
C3_TriggerGating ==
    /\ (Written /\ room.signature = SIG_ROOMMESH /\ room.triggers = <<>>)
          => /\ CallsFor(file, "trigger count", "integer") = {}
             /\ Reread => (~Failed(rcopy) /\ copy.triggers = <<>>
                           /\ ~Reached(rcopy, "trigger count"))
    /\ (Written /\ room.signature = SIG_HASTRIGGERBOX /\ Len(room.triggers) >= 1)
          => /\ \E i \in 1..Len(file.log) :
                    /\ CallsFor(file, "trigger count", "integer") = {i}
                    /\ BytesOf(file, i) = W_u32(Len(room.triggers))
             /\ Reread => (~Failed(rcopy) /\ Len(copy.triggers) = Len(room.triggers)
                           /\ copy.triggers = room.triggers)

\* both halves have happened: two triggers came back, and elsewhere none
C3_Witness ==
    /\ pc = "reimported"
    /\ room.signature = SIG_HASTRIGGERBOX
    /\ Len(room.triggers) = 2
    /\ room.triggers[1] # room.triggers[2]
    /\ copy.triggers = room.triggers

(***************************************************************************)
(* C4  RoomMesh.parse raises the unexpected-signature ValueError whenever  *)
(* the leading length-prefixed (ASCII) string is neither "RoomMesh" nor    *)
(* "RoomMesh.HasTriggerBox", having read nothing after that string; for    *)
(* either literal the next field it reads is the object count.             *)
(***************************************************************************)
SignatureChecked(f) ==
    (ParseRan(f) /\ HasLeadingString(f.data)) =>
        IF LeadingString(f.data) \notin {SIG_ROOMMESH, SIG_HASTRIGGERBOX}
        THEN /\ f.err = Raise("ValueError", "Unexpected signature string")
             /\ f.pos = 4 + Len(LeadingString(f.data))
             /\ Len(f.log) = 2
        ELSE /\ f.err # Raise("ValueError", "Unexpected signature string")
             /\ Len(f.log) >= 3
             /\ f.log[3].context = "object count"
             /\ f.log[3].at = 4 + Len(LeadingString(f.data))

C4_SignatureCheck == SignatureChecked(rmesh) /\ SignatureChecked(rcopy)

\* "RoomMesh2" was refused
C4_Witness ==
    /\ pc = "failed"
    /\ HasLeadingString(rmesh.data)
    /\ LeadingString(rmesh.data) = SIG_ROOMMESH \o <<50>>
    /\ rmesh.err.type = "ValueError"
    /\ room.objects = <<>> /\ room.points = <<>>


(***************************************************************************)
(* C5  If RoomMesh.parse fails (bad signature, truncated input, malformed  *)
(* text field) the element being parsed is not appended, but the RoomMesh  *)
(* keeps what was assigned before the failure: the signature string as     *)
(* read, and every object, collision, trigger and point parsed completely  *)
(* before it.                                                              *)
(***************************************************************************)
\* the sections parse has gone past are in the instance in full
SectionsKept(f, r) ==
    /\ HasLeadingString(f.data) => r.signature = LeadingString(f.data)
    /\ \A i \in CallsFor(f, "object count", "integer") :
            Reached(f, "collision count") => Len(r.objects) = WordOf(f, i)
    /\ \A i \in CallsFor(f, "collision count", "integer") :
            Reached(f, "point count") => Len(r.collisions) = WordOf(f, i)
    /\ \A i \in CallsFor(f, "trigger count", "integer") :
            Reached(f, "point count") => Len(r.triggers) = WordOf(f, i)

Needed(f, i) ==
    CASE f.log[i].kind = "byte" -> 1
      [] f.log[i].kind = "string" -> WordOf(f, i - 1)
      [] OTHER -> 4

ShortReadsRaise(f) ==
    \A i \in 1..Len(f.log) :
        f.log[i].n < Needed(f, i) => (i = Len(f.log) /\ f.err.type = "EOFError")

C6_TruncationDetected ==
    /\ ShortReadsRaise(rmesh)
    /\ ShortReadsRaise(rcopy)
    /\ unit.op = "Texture.parse" => ShortReadsRaise(unit.f)
    /\ pc = "truncated" => (rcopy.err.type = "EOFError" /\ rcopy.pos = Len(rcopy.data))

\* the cut fell inside a string after some of its bytes
C6_Witness ==
    /\ pc = "truncated"
    /\ rcopy.log[Len(rcopy.log)].kind = "string"
    /\ rcopy.log[Len(rcopy.log)].n > 0
    /\ rcopy.log[Len(rcopy.log)].context = "color string"
    /\ rcopy.err = Raise("EOFError", "color string")


(***************************************************************************)
(* The point records a parse has met                                       *)
(***************************************************************************)
\* the classnames read, in the order of the reads
RECURSIVE TagsFrom(_, _)
TagsFrom(f, i) ==
    IF i > Len(f.log) THEN <<>>
    ELSE (IF f.log[i].context = "point classname" /\ f.log[i].kind = "string"
          THEN <<BytesOf(f, i)>> ELSE <<>>) \o TagsFrom(f, i + 1)

IsKnown(tag) == tag \in KnownClassnames

KnownTags(f) == SelectSeq(TagsFrom(f, 1), IsKnown)

\* the reads of a position, and of a length-prefixed string
PosReads == <<<<"x-position", "float">>, <<"z-position", "float">>,
              <<"y-position", "float">>>>

StringReads(context) == <<<<context, "integer">>, <<context, "string">>>>

\* the reads each variant makes after its classname, in order
FieldOrder(tag) ==
    CASE tag = CN_SCREEN -> PosReads \o StringReads("screen image path")
      [] tag = CN_WAYPOINT -> PosReads
      [] tag = CN_LIGHT ->
            PosReads \o <<<<"light range", "float">>>> \o StringReads("color string")
            \o <<<<"light intensity", "float">>>>
      [] tag = CN_SPOTLIGHT ->
            PosReads \o <<<<"spotlight range", "float">>>> \o StringReads("color string")
            \o <<<<"spotlight intensity", "float">>>> \o StringReads("angle string")
            \o <<<<"spotlight inner angle", "integer">>,
                 <<"spotlight outer angle", "integer">>>>
      [] tag = CN_SOUNDEMITTER ->
            PosReads \o <<<<"sound emitter sound", "integer">>,
                          <<"sound emitter range", "float">>>>
      [] tag = CN_PLAYERSTART -> PosReads \o StringReads("angle string")
      [] tag = CN_MODEL ->
            StringReads("model path") \o PosReads
            \o <<<<"pitch value", "float">>, <<"yaw value", "float">>,
                 <<"roll value", "float">>, <<"x-scale", "float">>,
                 <<"y-scale", "float">>, <<"z-scale", "float">>>>

\* the attributes of each variant
VariantFields(tag) ==
    CASE tag = CN_SCREEN -> {"classname", "pos", "path"}
      [] tag = CN_WAYPOINT -> {"classname", "pos"}
      [] tag = CN_LIGHT -> {"classname", "pos", "range", "color", "intensity"}
      [] tag = CN_SPOTLIGHT -> {"classname", "pos", "range", "color", "intensity",
                                "angle", "inner_angle", "outer_angle"}
      [] tag = CN_SOUNDEMITTER -> {"classname", "pos", "sound", "range"}
      [] tag = CN_PLAYERSTART -> {"classname", "pos", "angle"}
      [] tag = CN_MODEL -> {"classname", "path", "pos", "angle", "scale"}

(***************************************************************************)
(* C7  Point dispatch on a known classname: for a classname among screen,  *)
(* waypoint, light, spotlight, soundemitter, playerstart, model, parse     *)
(* constructs the variant of that name, reads that variant's fields in     *)
(* their fixed order right after the classname, and appends the point, so  *)
(* that the points are in stream order and each point's classname is the   *)
(* tag read.                                                               *)
(***************************************************************************)
PointsDispatched(f, r) ==
    /\ Len(r.points) = Len(KnownTags(f))
    /\ \A i \in 1..Len(r.points) :
            /\ r.points[i].classname = KnownTags(f)[i]
            /\ DOMAIN r.points[i] = VariantFields(KnownTags(f)[i])
    /\ \A i \in CallsFor(f, "point classname", "string") :
            IsKnown(BytesOf(f, i)) =>
                \A j \in 1..Len(FieldOrder(BytesOf(f, i))) :
                    /\ i + j <= Len(f.log)
                    /\ f.log[i + j].context = FieldOrder(BytesOf(f, i))[j][1]
                    /\ f.log[i + j].kind = FieldOrder(BytesOf(f, i))[j][2]
                    /\ f.log[i + j].at = f.log[i + j - 1].at + f.log[i + j - 1].n

C7_PointDispatch ==
    /\ Imported => PointsDispatched(rmesh, room)
    /\ (Reread /\ ~Failed(rcopy)) => PointsDispatched(rcopy, copy)

\* a light and then a screen were read, and are the two points in that order
C7_Witness ==
    /\ pc = "parsed"
    /\ TagsFrom(rmesh, 1) = <<CN_LIGHT, CN_SCREEN>>
    /\ Len(room.points) = 2
    /\ room.points[1].classname = CN_LIGHT
    /\ room.points[1].color = [r |-> 255, g |-> 128, b |-> 0]
    /\ room.points[2].classname = CN_SCREEN

(***************************************************************************)
(* C8  Unknown classname: for a classname that is none of the seven        *)
(* literals parse appends no point and reads nothing beyond the classname  *)
(* string; the iteration is counted, so the next read is the next          *)
(* classname, starting at the record's body bytes, and the point list ends *)
(* shorter than the point count.                                           *)
(***************************************************************************)
UnknownReads(f) ==
    {i \in CallsFor(f, "point classname", "string") :
        /\ (i < Len(f.log) \/ ~Failed(f))
        /\ ~IsKnown(BytesOf(f, i))}

UnknownDropped(f, r, ok) ==
    /\ \A i \in UnknownReads(f) :
            IF i < Len(f.log)
            THEN /\ f.log[i + 1].context = "point classname"
                 /\ f.log[i + 1].kind = "integer"
                 /\ f.log[i + 1].at = f.log[i].at + f.log[i].n
            ELSE f.pos = f.log[i].at + f.log[i].n
    /\ ok => \A c \in CallsFor(f, "point count", "integer") :
                /\ Len(TagsFrom(f, 1)) = WordOf(f, c)
                /\ Len(r.points) = Len(KnownTags(f))
                /\ UnknownReads(f) # {} => Len(r.points) < WordOf(f, c)

C8_UnknownClassname ==
    /\ UnknownDropped(rmesh, room, Imported)
    /\ UnknownDropped(rcopy, copy, Reread /\ ~Failed(rcopy))

\* "door" was dropped and its body of one zero word was read as the next,
\* empty, classname
C8_Witness ==
    /\ pc = "parsed"
    /\ \E i \in UnknownReads(rmesh) :
            /\ BytesOf(rmesh, i) = <<100, 111, 111, 114>>
            /\ i + 2 <= Len(rmesh.log)
            /\ rmesh.log[i + 2].n = 0
    /\ Len(TagsFrom(rmesh, 1)) = 2
    /\ room.points = <<>>

(***************************************************************************)
(* C9  Texture omission: writing a Texture whose layer_ID is 0 emits       *)
(* exactly one zero byte whatever its filename is, and parsing a texture   *)
(* whose layer byte is 0 reads exactly that byte (no length prefix) and    *)
(* yields filename "".                                                     *)
(***************************************************************************)
C9_TextureOmission ==
    /\ (unit.op = "Texture.write" /\ unit.self.layer_ID = 0)
          => (unit.f.data = <<0>> /\ ~Failed(unit.f))
    /\ (unit.op = "Texture.parse" /\ unit.f.data # <<>> /\ unit.f.data[1] = 0)
          => /\ ~Failed(unit.f)
             /\ unit.f.pos = 1
             /\ Len(unit.f.log) = 1
             /\ unit.v = [layer_ID |-> 0, filename |-> <<>>]

\* Texture(0, "anything") was written as one byte
C9_Witness ==
    /\ unit.op = "Texture.write"
    /\ unit.self.layer_ID = 0
    /\ unit.self.filename # <<>>
    /\ unit.f.data = <<0>>

(***************************************************************************)
(* C10  Object.write emits exactly two texture slots when the Object has   *)
(* at most two textures: an Object with fewer than two is left-padded with *)
(* empty textures, Texture(layer_ID = 0), each one zero byte on the wire.   *)
(* The code pads with Texture(), whose layer_ID is 1.                      *)
(***************************************************************************)
C10_TwoEmptySlots ==
    (unit.op = "Object.write" /\ Len(unit.self.textures) <= 2) =>
        /\ Len(unit.v.textures) = 2
        /\ \A i \in 1..(2 - Len(unit.self.textures)) :
                /\ unit.v.textures[i] = [layer_ID |-> 0, filename |-> <<>>]
                /\ unit.f.log[i].n = 1
                /\ BytesOf(unit.f, i) = <<0>>
        /\ \A i \in 1..Len(unit.self.textures) :
                unit.v.textures[2 - Len(unit.self.textures) + i] = unit.self.textures[i]

(***************************************************************************)
(* C11  Color text parse with too few tokens: Color.parse_as_string on a   *)
(* string with fewer than three tokens ("10 20", "7", "") raises - the     *)
(* ValueError of int() at a token that is no integer, the TypeError of the *)
(* call of set_rgb otherwise - after reading the string and nothing else,  *)
(* and leaves the Color as it was; "255 128 0" yields Color(255, 128, 0).  *)
(***************************************************************************)
ColorParsed == pc = "unit" /\ unit.op = "Color.parse_as_string"

\* the string the call read: the file holds its length prefix and its bytes
ColorString == SubSeq(unit.f.data, 5, Len(unit.f.data))

C11_TooFewTokens ==
    ColorParsed =>
        /\ Len(str_split(ColorString)) < 3 =>
              /\ unit.f.err \in {Raise("ValueError", "int()"), Raise("TypeError", "set_rgb()")}
              /\ unit.v = unit.self
              /\ unit.f.pos = Len(unit.f.data)
        /\ ColorString = <<50, 53, 53, 32, 49, 50, 56, 32, 48>> =>
              /\ ~Failed(unit.f)
              /\ unit.v = [r |-> 255, g |-> 128, b |-> 0]

C11_Witness ==
    /\ ColorParsed
    /\ ColorString = <<49, 48, 32, 50, 48>>
    /\ unit.self = X_color
    /\ unit.f.err = Raise("TypeError", "set_rgb()")
    /\ unit.v = X_color

(***************************************************************************)
(* C12  Color text parse with extra tokens: Color.parse_as_string on a     *)
(* string with more than three integers ("1 2 3 4") succeeds and takes     *)
(* r, g, b from the first three.  The code does not: the call of set_rgb   *)
(* with four arguments raises TypeError.                                   *)
(***************************************************************************)
C12_ExtraTokensIgnored ==
    (/\ ColorParsed
     /\ Len(str_split(ColorString)) > 3
     /\ \A i \in 1..Len(str_split(ColorString)) : int_accepts(str_split(ColorString)[i]))
    => /\ ~Failed(unit.f)
       /\ unit.v = [r |-> int_value(str_split(ColorString)[1]),
                    g |-> int_value(str_split(ColorString)[2]),
                    b |-> int_value(str_split(ColorString)[3])]

(***************************************************************************)
(* C13  Angle text rounding: Angle.write_as_string emits each finite       *)
(* component rounded to the nearest integer, ties going to the even one    *)
(* (44.5 is written as 44, 45.5 as 46); Angle.parse_as_string of the       *)
(* output yields exactly those integers, and writing the parsed Angle      *)
(* emits the same bytes again.                                             *)
(***************************************************************************)
\* n is an integer nearest to the component x, and the even one at a tie
NearestEven(x, n) ==
    IF x.t = "int" THEN n = x.v
    ELSE IF x.exp = 0 \/ 150 - x.exp > 25 THEN n = 0
    ELSE IF 150 - x.exp <= 0
    THEN n = (IF x.sign = 1 THEN 0 - 1 ELSE 1) * (8388608 + x.man) * 2 ^ (x.exp - 150)
    ELSE LET a == IF x.sign = 1 THEN 0 - n ELSE n
             one == 2 ^ (150 - x.exp)
             d == (8388608 + x.man) - a * one
         IN  /\ a >= 0
             /\ 2 * d <= one /\ 0 - 2 * d <= one
             /\ (2 * d = one \/ 0 - 2 * d = one) => a % 2 = 0

AngleWritten == pc \in {"unit", "unit_read", "unit_rewritten"} /\ unit.op = "Angle.write_as_string"

C13_AngleRounding ==
    /\ (AngleWritten /\ pc = "unit") =>
          (Failed(unit.f) <=> \E x \in {unit.self.pitch, unit.self.yaw, unit.self.roll} :
                                  NonFinite(x))
    /\ (AngleWritten /\ pc \in {"unit_read", "unit_rewritten"}) =>
          /\ ~Failed(unit.rf)
          /\ unit.rf.pos = Len(unit.f.data)
          /\ unit.rv.pitch.t = "int" /\ NearestEven(unit.self.pitch, unit.rv.pitch.v)
          /\ unit.rv.yaw.t = "int" /\ NearestEven(unit.self.yaw, unit.rv.yaw.v)
          /\ unit.rv.roll.t = "int" /\ NearestEven(unit.self.roll, unit.rv.roll.v)
          /\ unit.self.pitch = X_HALF => unit.rv.pitch.v = 44
          /\ unit.self.pitch = Float(0, 132, 3538944) => unit.rv.pitch.v = 46
    /\ (AngleWritten /\ pc = "unit_rewritten") =>
          /\ ~Failed(unit.wf)
          /\ unit.wf.data = unit.f.data

C13_Witness ==
    /\ AngleWritten
    /\ pc = "unit_rewritten"
    /\ unit.self.pitch = X_HALF
    /\ unit.f.data = W_str(<<52, 52, 32, 48, 32, 45, 50>>)
    /\ unit.rv = [pitch |-> PyInt(44), yaw |-> PyInt(0), roll |-> PyInt(0 - 2)]
    /\ unit.wf.data = unit.f.data

(***************************************************************************)
(* C14  Axis swap: Coordinate3.write emits the fields in the wire order    *)
(* x, z, y, and Coordinate3.parse assigns the first, second and third wire *)
(* value to x, z and y, so that parsing what was written gives the         *)
(* position back, for every x, y, z that is a 32-bit float (no NaN among   *)
(* the values checked).                                                    *)
(***************************************************************************)
\* the four bytes of a 32-bit float on the wire, least significant first
FloatBytes(x) ==
    CASE x = Float(0, 0, 0) -> <<0, 0, 0, 0>>
      [] x = Float(1, 0, 0) -> <<0, 0, 0, 128>>
      [] x = X_ONE -> <<0, 0, 128, 63>>
      [] x = X_NEG -> <<0, 0, 32, 192>>
      [] x = Float(0, 254, 8388607) -> <<255, 255, 127, 127>>
      [] x = Float(0, 0, 1) -> <<1, 0, 0, 0>>

Coordinate3Written == pc \in {"unit", "unit_read"} /\ unit.op = "Coordinate3.write"

C14_AxisSwap ==
    /\ Coordinate3Written =>
          /\ ~Failed(unit.f)
          /\ unit.f.data = FloatBytes(unit.self.x) \o FloatBytes(unit.self.z)
                           \o FloatBytes(unit.self.y)
    /\ (Coordinate3Written /\ pc = "unit_read") =>
          /\ ~Failed(unit.rf)
          /\ Len(unit.rf.log) = 3
          /\ BytesOf(unit.rf, 1) = FloatBytes(unit.rv.x)
          /\ BytesOf(unit.rf, 2) = FloatBytes(unit.rv.z)
          /\ BytesOf(unit.rf, 3) = FloatBytes(unit.rv.y)
          /\ unit.rv = unit.self

C14_Witness ==
    /\ Coordinate3Written
    /\ pc = "unit_read"
    /\ unit.self = [x |-> X_ONE, y |-> X_NEG, z |-> Float(0, 0, 1)]
    /\ unit.f.data = <<0, 0, 128, 63, 1, 0, 0, 0, 0, 0, 32, 192>>
    /\ unit.rv = unit.self

(***************************************************************************)
(* C15  Unsigned 32-bit range: write_integer followed by read_integer      *)
(* returns the value written for every value in 0..4294967295, 4294967295  *)
(* included (written as ff ff ff ff), and write_integer raises at a        *)
(* negative value and at a value above 4294967295 before any byte reaches  *)
(* the sink.                                                               *)
(***************************************************************************)
IntegerWritten == pc \in {"unit", "unit_read"} /\ unit.op = "write_integer"

\* 0 <= n <= 4294967295 for the int n held as 16-bit limbs
InRange32(n) == n.hi >= 0 /\ n.hi <= 65535

C15_UnsignedRange ==
    /\ (IntegerWritten /\ InRange32(unit.self)) =>
          /\ ~Failed(unit.f)
          /\ Len(unit.f.data) = 4
          /\ unit.f.data[1] + 256 * unit.f.data[2] = unit.self.lo
          /\ unit.f.data[3] + 256 * unit.f.data[4] = unit.self.hi
          /\ unit.self = [hi |-> 65535, lo |-> 65535] => unit.f.data = <<255, 255, 255, 255>>
    /\ (IntegerWritten /\ ~InRange32(unit.self)) =>
          /\ unit.f.err = Raise("OverflowError", "integer data")
          /\ unit.f.data = <<>>
          /\ unit.f.log = <<>>
    /\ (IntegerWritten /\ pc = "unit_read") =>
          /\ InRange32(unit.self)
          /\ ~Failed(unit.rf)
          /\ unit.rv = unit.self

C15_Witness ==
    /\ IntegerWritten
    /\ pc = "unit_read"
    /\ unit.self = [hi |-> 65535, lo |-> 65535]
    /\ unit.f.data = <<255, 255, 255, 255>>
    /\ unit.rv = [hi |-> 65535, lo |-> 65535]

(***************************************************************************)
(* C16  Every successful RoomMesh.write ends its output with the           *)
(* length-prefixed "EOF" - the u32 3, then the three bytes - written after *)
(* the last point and once, whatever the signature is and whether or not   *)
(* any list is empty.                                                      *)
(***************************************************************************)
\* file holds what a successful call of room.write produced
WriteDone == Written \/ pc = "direct"

\* the labels under which the fields of a point are written
PointWrites ==
    {"screen classname", "waypoint classname", "light classname", "spotlight classname",
     "sound emitter classname", "player start classname", "model classname"}

C16_SentinelLast ==
    WriteDone =>
        /\ Len(file.data) >= 7
        /\ SubSeq(file.data, Len(file.data) - 6, Len(file.data)) = <<3, 0, 0, 0, 69, 79, 70>>
        /\ Len(file.log) >= 2
        /\ CallsFor(file, "end of file length", "integer") = {Len(file.log) - 1}
        /\ CallsFor(file, "end of file", "string") = {Len(file.log)}
        /\ \A i \in 1..Len(file.log) :
              file.log[i].context \in PointWrites \cup {"point count"} => i < Len(file.log) - 1
        /\ Cardinality({i \in 1..Len(file.log) : file.log[i].context \in PointWrites})
              = Len(room.points)

\* a room with signature "RoomMesh", two points and nothing else, and - in
\* another state - the room nothing was put into
C16_Witness ==
    /\ pc = "exported"
    /\ room.signature = SIG_ROOMMESH
    /\ room.objects = <<>> /\ room.collisions = <<>> /\ room.triggers = <<>>
    /\ Len(room.points) = 2
    /\ SubSeq(file.data, Len(file.data) - 6, Len(file.data)) = <<3, 0, 0, 0, 69, 79, 70>>
    /\ file.log[Len(file.log) - 2].context # "point count"

(***************************************************************************)
(* C19  On write the trigger count is emitted if and only if the trigger   *)
(* list is not empty, whatever the signature is: a RoomMesh with signature *)
(* "RoomMesh.HasTriggerBox" and no trigger is written without a trigger    *)
(* count (not with a count of zero) and the write does not fail; a         *)
(* RoomMesh with signature "RoomMesh" and triggers is written with the     *)
(* count and the triggers.  A write that fails fails at a field of a point, *)
(* after the place of the trigger section.                                 *)
(***************************************************************************)
C19_WriteGating ==
    /\ WriteDone =>
          /\ CallsFor(file, "trigger count", "integer") # {} <=> Len(room.triggers) > 0
          /\ \A i \in CallsFor(file, "trigger count", "integer") :
                /\ BytesOf(file, i) = W_u32(Len(room.triggers))
                /\ CallsFor(file, "trigger count", "integer") = {i}
          /\ Cardinality(CallsFor(file, "trigger box name", "string")) = Len(room.triggers)
          /\ Len(room.triggers) = 0 =>
                \E i \in 1..(Len(file.log) - 1) :
                    /\ file.log[i + 1].context = "point count"
                    /\ file.log[i].context \notin {"trigger count", "trigger box name"}
    /\ pc = "unwritten" =>
          /\ file.err = Raise("AttributeError", "spotlight inner angle")
          /\ Reached(file, "point count")
          /\ CallsFor(file, "trigger count", "integer") # {} <=> Len(room.triggers) > 0

\* "RoomMesh.HasTriggerBox" without a trigger: the point count follows the
\* collision count at once
C19_Witness ==
    /\ pc = "direct"
    /\ room.signature = SIG_HASTRIGGERBOX
    /\ room.triggers = <<>> /\ room.collisions = <<>> /\ room.objects = <<>>
    /\ file.data = W_str(SIG_HASTRIGGERBOX) \o W_u32(0) \o W_u32(0) \o W_u32(Len(room.points))
                   \o SubSeq(file.data, 39, Len(file.data))

\* "RoomMesh" with two triggers: the count 2 is written
C19_WitnessPlain ==
    /\ pc = "direct"
    /\ room.signature = SIG_ROOMMESH
    /\ Len(room.triggers) = 2
    /\ \E i \in CallsFor(file, "trigger count", "integer") : BytesOf(file, i) = W_u32(2)

(***************************************************************************)
(* C17  RoomMesh.parse never reads past the last point record: after a     *)
(* successful parse the position is where the last read of the point       *)
(* section ended and no end-of-file string has been read; the same bytes   *)
(* followed by anything else, or by nothing, parse to the same RoomMesh.   *)
(***************************************************************************)
\* the reads of the parse have ended in the point section
EndsInPoints(f) ==
    \E i \in CallsFor(f, "point count", "integer") :
        /\ \A j \in 1..Len(f.log) : f.log[j].context = "point count" => j = i
        /\ f.pos = f.log[Len(f.log)].at + f.log[Len(f.log)].n
        /\ f.pos <= Len(f.data)
        /\ ~Reached(f, "end of file")

C17_TailNeverRead ==
    /\ Imported => EndsInPoints(rmesh)
    /\ pc = "retailed" =>
          /\ ~Failed(rcopy)
          /\ EndsInPoints(rcopy)
          /\ rcopy.pos = rmesh.pos
          /\ rcopy.log = rmesh.log
          /\ copy = room

\* a file with two points and the "EOF" string after them parsed to the same
\* RoomMesh with the string stripped
C17_Witness ==
    /\ pc = "retailed"
    /\ Len(room.points) = 2
    /\ SubSeq(rmesh.data, rmesh.pos + 1, Len(rmesh.data)) = W_str(STR_EOF)
    /\ rcopy.data = SubSeq(rmesh.data, 1, rmesh.pos)
    /\ copy = room

(***************************************************************************)
(* C20  On parse the trigger count is read if and only if the signature is *)
(* "RoomMesh.HasTriggerBox"; with the signature "RoomMesh" the u32 after   *)
(* the last collision is taken as the point count and the trigger list of  *)
(* a fresh RoomMesh stays empty.                                           *)
(***************************************************************************)
\* the labels under which a trigger section is read
TriggerReads == {"trigger count", "trigger box collision count", "trigger box name"}

ParseGating(f, r) ==
    (ParseRan(f) /\ HasLeadingString(f.data)) =>
        /\ (\E i \in 1..Len(f.log) : f.log[i].context \in TriggerReads)
              => LeadingString(f.data) = SIG_HASTRIGGERBOX
        /\ (LeadingString(f.data) = SIG_HASTRIGGERBOX /\ Reached(f, "point count")) =>
              \E i \in 1..Len(f.log) :
                  /\ CallsFor(f, "trigger count", "integer") = {i}
                  /\ \A j \in CallsFor(f, "collision count", "integer") : j < i
                  /\ \A j \in CallsFor(f, "point count", "integer") : i < j
                  /\ Len(r.triggers) = WordOf(f, i)
        /\ (LeadingString(f.data) = SIG_ROOMMESH /\ Reached(f, "point count")) =>
              /\ r.triggers = <<>>
              /\ \A j \in CallsFor(f, "point count", "integer") :
                    /\ j > 1
                    /\ f.log[j - 1].context \in
                          {"collision count", "collision triangle count", "triangle index 3"}
        /\ (LeadingString(f.data) = SIG_ROOMMESH /\ Reached(f, "collision count")
            /\ ~Failed(f)) => Reached(f, "point count")

C20_ParseGating ==
    /\ ParseGating(rmesh, room)
    /\ pc \in {"reparsed", "reimported", "truncated", "retailed"} => ParseGating(rcopy, copy)

\* a file with the signature "RoomMesh", a collision and a point
C20_Witness ==
    /\ pc = "parsed"
    /\ room.signature = SIG_ROOMMESH
    /\ Len(room.collisions) = 1
    /\ Len(room.points) = 1
    /\ room.triggers = <<>>
    /\ ~Reached(rmesh, "trigger count")

(***************************************************************************)
(* C18  RoomMesh.write_info reports every section and every field: for     *)
(* each point of any of the seven variants it writes the header line of    *)
(* the point, then its position and the fields of its variant.  The code   *)
(* does not: a playerstart gets its header line alone, and the position of *)
(* every point is formatted as an object, without its coordinates.         *)
(***************************************************************************)
\* the labels of the lines a point of a variant is to be reported with
InfoLabels(classname) ==
    CASE classname = CN_SCREEN -> {"Position", "Image"}
      [] classname = CN_WAYPOINT -> {"Position"}
      [] classname = CN_LIGHT -> {"Position", "Intensity", "Range", "Color"}
      [] classname = CN_SPOTLIGHT -> {"Position", "Intensity", "Range", "Color",
                                      "Inner angle", "Outer angle", "Rotation"}
      [] classname = CN_SOUNDEMITTER -> {"Position", "Range", "Sound ID"}
      [] classname = CN_PLAYERSTART -> {"Position", "Rotation"}
      [] classname = CN_MODEL -> {"Position", "Model", "Rotation", "Scale"}

\* the lines from the header of the i-th point to the next header
InfoBlock(lines, i) ==
    LET h == CHOOSE k \in 1..Len(lines) : lines[k].label = "Point" /\ lines[k].value[1] = i - 1
        rest == {k \in (h + 1)..Len(lines) : lines[k].label = "Point"}
        e == IF rest = {} THEN Len(lines)
             ELSE (CHOOSE k \in rest : \A m \in rest : k <= m) - 1
    IN  SubSeq(lines, h + 1, e)

\* the variant's lines follow the header; the position is there with its
\* coordinates
PointReported(lines, i, point) ==
    /\ \E k \in 1..Len(lines) :
          /\ lines[k].label = "Point"
          /\ lines[k].value = <<i - 1, point.classname>>
    /\ {InfoBlock(lines, i)[k].label : k \in 1..Len(InfoBlock(lines, i))}
          = InfoLabels(point.classname)
    /\ InfoBlock(lines, i)[1].label = "Position"
    /\ InfoBlock(lines, i)[1].kind = "tuple"
    /\ InfoBlock(lines, i)[1].value = Coordinate3_pos(point.pos)

C18_InfoComplete ==
    pc = "reported" =>
        /\ \E k \in 1..Len(file.data) :
              file.data[k].label = "Point count" /\ file.data[k].value = Len(room.points)
        /\ \A i \in 1..Len(room.points) : PointReported(file.data, i, room.points[i])

\* the same for the header lines and the labels alone, whatever the position
\* line shows
C18_InfoLabels ==
    pc = "reported" =>
        \A i \in 1..Len(room.points) :
            /\ \E k \in 1..Len(file.data) :
                  /\ file.data[k].label = "Point"
                  /\ file.data[k].value = <<i - 1, room.points[i].classname>>
            /\ {InfoBlock(file.data, i)[k].label : k \in 1..Len(InfoBlock(file.data, i))}
                  = InfoLabels(room.points[i].classname)

(***************************************************************************)
(* C21  List framing: for every list section - objects, collisions,        *)
(* triggers, points, the vertices and triangles of an object and of a      *)
(* collision, the collisions of a trigger - write emits a u32 count equal  *)
(* to the number of elements it then emits, and a successful parse into a  *)
(* fresh instance loops exactly count times; for every section but the     *)
(* points the length of the parsed list is the count read.                 *)
(***************************************************************************)
\* the k-th of a set of calls, in the order they were made
Nth(S, k) == CHOOSE i \in S : Cardinality({j \in S : j < i}) = k - 1

\* the collisions of the room and then those of its triggers, as they lie
\* in a file
AllCollisions(r) ==
    r.collisions \o Flat([i \in 1..Len(r.triggers) |-> r.triggers[i].collisions])

\* the counts of the file f and the elements in it are those of the lists of r
Framed(f, r) ==
    /\ \E i \in 1..Len(f.log) :
          /\ CallsFor(f, "object count", "integer") = {i}
          /\ WordOf(f, i) = Len(r.objects)
    /\ Cardinality(CallsFor(f, "object vertex count", "integer")) = Len(r.objects)
    /\ Cardinality(CallsFor(f, "object triangle count", "integer")) = Len(r.objects)
    /\ \A k \in 1..Len(r.objects) :
          /\ WordOf(f, Nth(CallsFor(f, "object vertex count", "integer"), k))
                = Len(r.objects[k].vertices)
          /\ WordOf(f, Nth(CallsFor(f, "object triangle count", "integer"), k))
                = Len(r.objects[k].triangles)
    /\ Cardinality(CallsFor(f, "red value", "byte"))
          = Len(Flat([k \in 1..Len(r.objects) |-> r.objects[k].vertices]))
    /\ \E i \in 1..Len(f.log) :
          /\ CallsFor(f, "collision count", "integer") = {i}
          /\ WordOf(f, i) = Len(r.collisions)
    /\ Cardinality(CallsFor(f, "collision vertex count", "integer")) = Len(AllCollisions(r))
    /\ Cardinality(CallsFor(f, "collision triangle count", "integer")) = Len(AllCollisions(r))
    /\ \A k \in 1..Len(AllCollisions(r)) :
          /\ WordOf(f, Nth(CallsFor(f, "collision vertex count", "integer"), k))
                = Len(AllCollisions(r)[k].vertices)
          /\ WordOf(f, Nth(CallsFor(f, "collision triangle count", "integer"), k))
                = Len(AllCollisions(r)[k].triangles)
    /\ \A i \in CallsFor(f, "trigger count", "integer") :
          /\ CallsFor(f, "trigger count", "integer") = {i}
          /\ WordOf(f, i) = Len(r.triggers)
    /\ Cardinality(CallsFor(f, "trigger box collision count", "integer")) = Len(r.triggers)
    /\ \A k \in 1..Len(r.triggers) :
          WordOf(f, Nth(CallsFor(f, "trigger box collision count", "integer"), k))
             = Len(r.triggers[k].collisions)

\* the triangles of the objects and of the collisions of r
AllTriangles(r) ==
    Flat([k \in 1..Len(r.objects) |-> r.objects[k].triangles])
    \o Flat([k \in 1..Len(AllCollisions(r)) |-> AllCollisions(r)[k].triangles])

\* write: three indices for each triangle (Triangle.write gives them no
\* label of their own); the point count is the number of points, each
\* emitted once
FramedWritten(f, r) ==
    /\ Cardinality(CallsFor(f, "integer data", "integer")) = 3 * Len(AllTriangles(r))
    /\ \E i \in 1..Len(f.log) :
          /\ CallsFor(f, "point count", "integer") = {i}
          /\ WordOf(f, i) = Len(r.points)
          /\ Cardinality({j \in 1..Len(f.log) : f.log[j].context \in PointWrites})
                = Len(r.points)

\* parse: one triangle for each first index read; as many classnames are
\* read as the point count says, and no more points than that are in the list
FramedParsed(f, r) ==
    /\ Cardinality(CallsFor(f, "triangle index 1", "integer")) = Len(AllTriangles(r))
    /\ \E i \in 1..Len(f.log) :
          /\ CallsFor(f, "point count", "integer") = {i}
          /\ Cardinality(CallsFor(f, "point classname", "string")) = WordOf(f, i)
          /\ Len(r.points) <= WordOf(f, i)

C21_ListFraming ==
    /\ WriteDone => (Framed(file, room) /\ FramedWritten(file, room))
    /\ Imported => (Framed(rmesh, room) /\ FramedParsed(rmesh, room))
    /\ (pc \in {"reparsed", "reimported", "retailed"} /\ ~Failed(rcopy))
          => (Framed(rcopy, copy) /\ FramedParsed(rcopy, copy))

\* an exported room with an object that has a vertex and a triangle, and a
\* trigger, parsed back
C21_Witness ==
    /\ pc = "reimported"
    /\ ~Failed(rcopy)
    /\ Len(room.objects) = 1
    /\ Len(room.objects[1].vertices) >= 1
    /\ Len(room.objects[1].triangles) >= 1
    /\ Len(room.triggers) = 1
    /\ Len(room.triggers[1].collisions) >= 1
    /\ Len(copy.objects[1].triangles) = Len(room.objects[1].triangles)

(***************************************************************************)
(* C22  Error context chaining: when parsing an element of a list section  *)
(* fails, the failure that reaches the caller of RoomMesh.parse carries    *)
(* the context of the outer section with that of the inner field, a chain  *)
(* and not the label of the innermost field alone.  The code does not      *)
(* chain: no parse method catches, so the EOFError of the read_* helper    *)
(* arrives as raised, with the label of the field.                         *)
(***************************************************************************)
\* the parse that left f failed at a read inside an element of a list
FailedInElement(f) ==
    /\ f.err.type = "EOFError"
    /\ f.log # <<>>
    /\ Reached(f, "object count")
    /\ f.log[Len(f.log)].context \notin {"object count", "collision count",
                                         "trigger count", "point count"}

\* the context of the failure is more than the label of the field
Chained(f) == f.err.context # f.log[Len(f.log)].context

C22_ContextChain ==
    /\ (pc = "failed" /\ FailedInElement(rmesh)) => Chained(rmesh)
    /\ (pc = "truncated" /\ FailedInElement(rcopy)) => Chained(rcopy)

\* what the code does: the failure carries the label of the field that was
\* being read, and nothing else
C22_FlatContext ==
    /\ (pc = "failed" /\ rmesh.err.type = "EOFError")
          => rmesh.err.context = rmesh.log[Len(rmesh.log)].context
    /\ (pc = "truncated" /\ rcopy.err.type = "EOFError" /\ rcopy.log # <<>>)
          => rcopy.err.context = rcopy.log[Len(rcopy.log)].context


(***************************************************************************)
(* C23  Point variant symmetry: the write of each of the seven variants    *)
(* emits the classname string first and then the fields in the order the   *)
(* parse of the variant reads them (a model: path, position, binary angle, *)
(* scale), so that dispatching on the classname and parsing the bytes      *)
(* written for a point whose text-encoded angle components are integers    *)
(* gives the same variant with the same field values.                      *)
(***************************************************************************)
\* the label a write gives to the j-th read of a variant: the length of a
\* string is written under the label of the string with " length" after it
WriteLabel(order, j) ==
    IF order[j][2] = "integer" /\ j < Len(order) /\ order[j + 1][2] = "string"
    THEN order[j][1] \o " length" ELSE order[j][1]

\* the angle of the point, when it has one in text form, holds integers
IntegerAngles(p) ==
    p.classname \in {CN_SPOTLIGHT, CN_PLAYERSTART} =>
        p.angle.pitch.t = "int" /\ p.angle.yaw.t = "int" /\ p.angle.roll.t = "int"

\* f is the sink of self.write: classname, then the fields in parse order
WrittenInParseOrder(f, self) ==
    LET order == FieldOrder(self.classname)
    IN  /\ Len(f.log) = 2 + Len(order)
        /\ f.log[1].kind = "integer" /\ f.log[1].at = 0
        /\ f.log[2].kind = "string" /\ f.log[2].context \in PointWrites
        /\ BytesOf(f, 2) = self.classname
        /\ \A j \in 1..Len(order) :
              /\ f.log[2 + j].context = WriteLabel(order, j)
              /\ f.log[2 + j].kind = order[j][2]
              /\ f.log[2 + j].at = f.log[1 + j].at + f.log[1 + j].n

\* the parse cut the bytes where the write had cut them
ReadAsWritten(f, rf) ==
    /\ Len(rf.log) = Len(f.log)
    /\ \A i \in 1..Len(f.log) :
          /\ rf.log[i].kind = f.log[i].kind
          /\ rf.log[i].at = f.log[i].at
          /\ rf.log[i].n = f.log[i].n

C23_WitnessRounded ==
    /\ pc = "unit_read"
    /\ unit.op = "Point.write"
    /\ ~IntegerAngles(unit.self)
    /\ unit.rv # <<unit.self>>
    /\ unit.rv[1].angle.pitch = PyInt(44)


(***************************************************************************)
(* C24  String framing: write_string emits a u32 length equal to the       *)
(* number of bytes that follow it, read_string of what write_string wrote  *)
(* for an ASCII string s returns s, and the empty string is written as a   *)
(* zero length of four bytes without payload - which is not what an        *)
(* omitted field is: the filename of a texture of layer 0 takes no byte.   *)
(***************************************************************************)
IsAscii(s) == \A i \in 1..Len(s) : s[i] <= 127

StringFramed ==
    (pc \in {"unit", "unit_read"} /\ unit.op = "write_string" /\ IsAscii(unit.self)) =>
        /\ ~Failed(unit.f)
        /\ Len(unit.f.data) = 4 + Len(unit.self)
        /\ SubSeq(unit.f.data, 1, 4) = <<Len(unit.self), 0, 0, 0>>
        /\ SubSeq(unit.f.data, 5, Len(unit.f.data)) = unit.self
        /\ WordOf(unit.f, 1) = unit.f.log[2].n
        /\ unit.self = <<>> => unit.f.data = <<0, 0, 0, 0>>
        /\ pc = "unit_read" =>
              /\ ~Failed(unit.rf)
              /\ unit.rv = unit.self
              /\ unit.rf.pos = Len(unit.f.data)

\* Texture.write: no filename field at layer 0, an empty one elsewhere
AbsentIsNotEmpty ==
    (pc = "unit" /\ unit.op = "Texture.write" /\ ~Failed(unit.f)) =>
        /\ unit.self.layer_ID = 0 => unit.f.data = <<0>>
        /\ (unit.self.layer_ID # 0 /\ unit.self.filename = <<>>) =>
              unit.f.data = <<unit.self.layer_ID, 0, 0, 0, 0>>

C24_StringFraming == StringFramed /\ AbsentIsNotEmpty

\* the empty string was written as four zero bytes and read back as empty
C24_Witness ==
    /\ pc = "unit_read"
    /\ unit.op = "write_string"
    /\ unit.self = <<>>
    /\ unit.f.data = <<0, 0, 0, 0>>
    /\ unit.rv = <<>>

\* "RoomMesh" was written as 8, 0, 0, 0 and its eight bytes, and read back
C24_WitnessText ==
    /\ pc = "unit_read"
    /\ unit.op = "write_string"
    /\ unit.f.data = <<8, 0, 0, 0>> \o <<82, 111, 111, 109, 77, 101, 115, 104>>
    /\ unit.rv = <<82, 111, 111, 109, 77, 101, 115, 104>>


(***************************************************************************)
(* C25  The exporter sets the signature from the trigger list just before  *)
(* it writes: the written file begins with "RoomMesh.HasTriggerBox" if and *)
(* only if at least one trigger box was collected, the trigger section is  *)
(* in the file exactly when the signature announces it, and the exported   *)
(* file parses back with the same section counts.                          *)
(***************************************************************************)
SameCounts(r, s) ==
    /\ Len(r.objects) = Len(s.objects)
    /\ Len(r.collisions) = Len(s.collisions)
    /\ Len(r.triggers) = Len(s.triggers)
    /\ Len(r.points) = Len(s.points)

C25_ExportSignature ==
    pc \in {"exported", "reimported"} =>
        /\ HasLeadingString(file.data)
        /\ LeadingString(file.data) \in {SIG_ROOMMESH, SIG_HASTRIGGERBOX}
        /\ LeadingString(file.data) = SIG_HASTRIGGERBOX <=> Len(room.triggers) >= 1
        /\ CallsFor(file, "trigger count", "integer") # {}
              <=> LeadingString(file.data) = SIG_HASTRIGGERBOX
        /\ pc = "reimported" =>
              /\ ~Failed(rcopy)
              /\ copy.signature = LeadingString(file.data)
              /\ Reached(rcopy, "trigger count")
                    <=> LeadingString(file.data) = SIG_HASTRIGGERBOX
              /\ SameCounts(copy, room)

\* a scene of one trigger box and one point was exported and read back
C25_Witness ==
    /\ pc = "reimported"
    /\ Len(room.triggers) = 1 /\ Len(room.points) = 1
    /\ LeadingString(file.data) = SIG_HASTRIGGERBOX
    /\ Len(copy.triggers) = 1 /\ Len(copy.points) = 1

\* a scene without trigger box was exported under "RoomMesh" and read back
C25_WitnessPlain ==
    /\ pc = "reimported"
    /\ room.triggers = <<>> /\ Len(room.objects) = 1 /\ Len(room.collisions) = 1
    /\ LeadingString(file.data) = SIG_ROOMMESH
    /\ SameCounts(copy, room)


(***************************************************************************)
(* C26  RoomMesh.write leaves the room as it was - the signature, the      *)
(* length and the order of every list, the fields of every element - but   *)
(* for one thing: an Object that held fewer than two textures holds        *)
(* exactly two afterwards.  Hence writing the same room twice gives the    *)
(* same bytes.                                                             *)
(***************************************************************************)
\* s is r but for the textures of the objects that held fewer than two
FrameOfWrite(r, s) ==
    /\ s.signature = r.signature
    /\ s.collisions = r.collisions
    /\ s.triggers = r.triggers
    /\ s.points = r.points
    /\ Len(s.objects) = Len(r.objects)
    /\ \A i \in 1..Len(r.objects) :
          /\ s.objects[i].vertices = r.objects[i].vertices
          /\ s.objects[i].triangles = r.objects[i].triangles
          /\ IF Len(r.objects[i].textures) < 2
             THEN Len(s.objects[i].textures) = 2
             ELSE s.objects[i].textures = r.objects[i].textures

\* a step of Write, and a step of WriteAgain
FirstWrite == pc \in {"parsed", "signed", "assigned"} /\ pc' # pc

SecondWrite == pc \in {"rewritten", "exported", "direct"} /\ pc' = "twice"

WriteFrame ==
    /\ FirstWrite => FrameOfWrite(room, room')
    /\ SecondWrite => /\ room' = room
                      /\ ~Failed(unit'.f)
                      /\ unit'.f.data = file.data
                      /\ unit'.f.log = file.log

C26_WriteFrame == [][WriteFrame]_vars

\* an object without texture and one of a single texture were padded by the
\* first write, and the second write gave the same bytes
C26_Witness ==
    /\ pc = "twice"
    /\ Len(room.objects) = 2
    /\ \E i \in 1..2 : room.objects[i].textures = <<Texture_default, Texture_default>>
    /\ \E i \in 1..2 : room.objects[i].textures = <<Texture_default, X_diffuse>>
    /\ unit.f.data = file.data


(***************************************************************************)
(* C27  Every Spotlight built by convert_spotlight can be written: its     *)
(* inner_angle and outer_angle are integers in 0..4294967295, so that      *)
(* Spotlight.write emits them as two u32 fields and does not raise.        *)
(***************************************************************************)
IsU32(value) == ~IsFloat(value) /\ value.hi \in 0..65535

SpotlightConverted == pc = "unit" /\ unit.op = "convert_spotlight"

C27_SpotlightWritable ==
    SpotlightConverted =>
        /\ IsU32(unit.v.inner_angle)
        /\ IsU32(unit.v.outer_angle)
        /\ ~Failed(unit.f)
        /\ CallsFor(unit.f, "spotlight inner angle", "integer") # {}
        /\ CallsFor(unit.f, "spotlight outer angle", "integer") # {}

\* what the code does: both fields are floats, and the write of the first
\* raises AttributeError after the angle string was written
C27_SpotlightRaises ==
    SpotlightConverted =>
        /\ IsFloat(unit.v.inner_angle)
        /\ unit.v.outer_angle = unit.self.spot_size
        /\ unit.f.err = Raise("AttributeError", "spotlight inner angle")
        /\ unit.f.log[Len(unit.f.log)].context = "angle string"

\* the default spot light: at (160.0, -400.0, 0.0), white, intensity 20.0,
\* a cone of pi/4 and an inner angle of pi/8
C27_Converted ==
    /\ SpotlightConverted
    /\ unit.self = X_spot
    /\ unit.v.pos = [x |-> Float(0, 134, 2097152), y |-> Float(1, 135, 4718592),
                     z |-> Float(0, 0, 0)]
    /\ unit.v.color = [r |-> 255, g |-> 255, b |-> 255]
    /\ unit.v.intensity = Float(0, 131, 2097152)
    /\ unit.v.outer_angle = Float(0, 126, 4788187)
    /\ unit.v.inner_angle = Float(0, 125, 4788187)


(***************************************************************************)
(* C28  Trigger grouping on export: after convert_trigger_box was called   *)
(* for any sequence of trigger meshes, the names in room.triggers are      *)
(* pairwise distinct, every TriggerBox holds at least one Collision, the   *)
(* meshes of one trigger_name are collected in the same TriggerBox in call *)
(* order, and the collisions of all triggers are as many as the calls.     *)
(***************************************************************************)
\* room is what export_roommesh has collected
Collecting == pc \in {"idle", "building", "signed", "exported", "reimported"}

RECURSIVE CollisionsOf(_, _, _)
CollisionsOf(calls, trigger_name, i) ==
    IF i > Len(calls) THEN <<>>
    ELSE (IF calls[i].trigger_name = trigger_name
          THEN <<convert_collision(calls[i])>> ELSE <<>>)
         \o CollisionsOf(calls, trigger_name, i + 1)

\* the call that was the first of its name
FirstCall(calls, k) == \A j \in 1..(k - 1) : calls[j].trigger_name # calls[k].trigger_name

RECURSIVE SumOfCollisions(_, _)
SumOfCollisions(triggers, i) ==
    IF i > Len(triggers) THEN 0
    ELSE Len(triggers[i].collisions) + SumOfCollisions(triggers, i + 1)

Grouped(triggers, calls) ==
    /\ \A i, j \in 1..Len(triggers) : i # j => triggers[i].name # triggers[j].name
    /\ \A i \in 1..Len(triggers) :
          /\ Len(triggers[i].collisions) >= 1
          /\ triggers[i].collisions = CollisionsOf(calls, triggers[i].name, 1)
    /\ \A k \in 1..Len(calls) :
          \E i \in 1..Len(triggers) : triggers[i].name = calls[k].trigger_name
    /\ Len(triggers) = Cardinality({k \in 1..Len(calls) : FirstCall(calls, k)})
    /\ \A i, j \in 1..Len(triggers) :
          i < j => \E k \in 1..Len(calls) :
                      /\ calls[k].trigger_name = triggers[i].name
                      /\ \A l \in 1..k : calls[l].trigger_name # triggers[j].name
    /\ SumOfCollisions(triggers, 1) = Len(calls)

C28_TriggerGrouping == Collecting => Grouped(room.triggers, Calls)

\* "t1", "t2" and "t1" again: two triggers, the first of two collisions,
\* the triangle ahead of the empty mesh
C28_Witness ==
    /\ pc = "building"
    /\ Len(Calls) = 3
    /\ Calls[1].trigger_name = Calls[3].trigger_name
    /\ Calls[1].trigger_name # Calls[2].trigger_name
    /\ Len(Calls[1].vertices) = 3 /\ Calls[3].vertices = <<>>
    /\ Len(room.triggers) = 2
    /\ room.triggers[1].name = Calls[1].trigger_name
    /\ Len(room.triggers[1].collisions) = 2
    /\ Len(room.triggers[1].collisions[1].vertices) = 3
    /\ room.triggers[1].collisions[2] = Collision_init


(***************************************************************************)
(* C29  From is_collision = is_trigger = is_model = False, after any       *)
(* sequence of clicks on the three checkboxes, each followed by its update *)
(* callback and by every callback that one calls, whenever the callbacks   *)
(* have ended is_trigger implies is_collision: turning collision off       *)
(* clears trigger, and turning trigger on while collision is off is        *)
(* reverted.                                                               *)
(***************************************************************************)
\* the property group of the object that was clicked last
Clicked == ui.props[ui.click.obj]

C29_TriggerNeedsCollision ==
    Idle =>
        /\ \A o \in 1..NumObjects : ui.props[o].is_trigger => ui.props[o].is_collision
        /\ (ui.click.prop = "is_collision" /\ ~ui.click.value) => ~Clicked.is_trigger
        /\ (ui.click.prop = "is_trigger" /\ ui.click.value /\ ~ui.click.before.is_collision)
              => ~Clicked.is_trigger
        /\ (ui.click.prop = "is_trigger" /\ ui.click.value /\ ui.click.before.is_collision)
              => Clicked.is_trigger /\ Clicked.is_collision

\* collision was turned off on an object that was a trigger: it is none now
C29_Witness ==
    /\ Idle
    /\ ui.click.prop = "is_collision" /\ ~ui.click.value
    /\ ui.click.before.is_trigger /\ ui.click.before.is_collision
    /\ ~Clicked.is_trigger /\ ~Clicked.is_collision
    /\ Clicked.id_is_trigger = "False"

\* trigger was turned on on an object without collision, and was reverted
C29_WitnessReverted ==
    /\ Idle
    /\ ui.click.prop = "is_trigger" /\ ui.click.value
    /\ ~ui.click.before.is_collision
    /\ ~Clicked.is_trigger
    /\ Clicked.id_is_trigger = "False"

\* while update_is_trigger runs, the flag is set on an object without collision
C29_WitnessRunning ==
    /\ ~Idle
    /\ \E o \in 1..NumObjects : ui.props[o].is_trigger /\ ~ui.props[o].is_collision

(***************************************************************************)
(* C30  From all flags False, after any sequence of clicks on is_collision,*)
(* is_trigger and is_model, the callbacks run to their end, is_collision   *)
(* and is_model are never both True and an object with is_model True has   *)
(* is_trigger False: turning collision on clears model, and turning model  *)
(* on clears collision and, through it, trigger.                           *)
(***************************************************************************)
C30_ModelExcludesCollision ==
    Idle =>
        /\ \A o \in 1..NumObjects :
              /\ ~(ui.props[o].is_collision /\ ui.props[o].is_model)
              /\ ui.props[o].is_model => ~ui.props[o].is_trigger
        /\ (ui.click.prop = "is_collision" /\ ui.click.value)
              => Clicked.is_collision /\ ~Clicked.is_model
        /\ (ui.click.prop = "is_model" /\ ui.click.value)
              => Clicked.is_model /\ ~Clicked.is_collision /\ ~Clicked.is_trigger

\* model was turned on on an object that was a collision and a trigger
C30_Witness ==
    /\ Idle
    /\ ui.click.prop = "is_model" /\ ui.click.value
    /\ ui.click.before.is_collision /\ ui.click.before.is_trigger
    /\ Clicked.is_model /\ ~Clicked.is_collision /\ ~Clicked.is_trigger
    /\ Clicked.display_type = "SOLID"

\* collision was turned on on an object that was a model
C30_WitnessCollision ==
    /\ Idle
    /\ ui.click.prop = "is_collision" /\ ui.click.value
    /\ ui.click.before.is_model
    /\ Clicked.is_collision /\ ~Clicked.is_model
    /\ Clicked.id_is_model = "False"

====
